---------------------------- MODULE Spec2Model ----------------------------
(***************************************************************************)
(* A model of EnhancedCodeAnalyzer (Code_Analyzer_with_GitHub_Integration  *)
(* .py): the rule-based analysis engine analyze_code and its passes, the   *)
(* issue list the analyzer object holds, and the callers that run several  *)
(* analyses on one analyzer object.                                        *)
(*                                                                         *)
(* Source text is modelled character by character: a line is a string, a   *)
(* source is the sequence of its lines (the value of code.split('\n'),     *)
(* never empty), and every pattern of the passes is matched on the         *)
(* characters of the line as Python's re and str operations match it.      *)
(* The sources are the texts made of the statements of a small catalogue;  *)
(* what Python's ast.parse returns for a statement of the catalogue is     *)
(* tabulated from the parser itself.                                       *)
(***************************************************************************)
EXTENDS Integers, Sequences, FiniteSets, TLC

(***************************************************************************)
(* Characters and strings                                                  *)
(***************************************************************************)

\* The character of s at position i (1-based), "" outside the string.
Ch(s, i) == IF i >= 1 /\ i <= Len(s) THEN SubSeq(s, i, i) ELSE ""

\* s[i:i+len(sub)] == sub
StartsAt(s, i, sub) ==
    /\ i >= 1
    /\ i + Len(sub) - 1 <= Len(s)
    /\ SubSeq(s, i, i + Len(sub) - 1) = sub

\* Python's `sub in s`
Contains(s, sub) == \E i \in 1..(Len(s) - Len(sub) + 1) : StartsAt(s, i, sub)

\* Python's s.count(c) for a one-character c
Count(s, c) == Cardinality({i \in 1..Len(s) : Ch(s, i) = c})

Uppers == "ABCDEFGHIJKLMNOPQRSTUVWXYZ"
Lowers == "abcdefghijklmnopqrstuvwxyz"
Digits == "0123456789"

CharsOf(s) == {Ch(s, i) : i \in 1..Len(s)}

\* \s of a str pattern, and the characters str.strip() removes
IsSpace(c) == c \in {" ", "\t", "\r", "\f"}
\* \d
IsDigit(c) == c \in CharsOf(Digits)
\* \w
IsWord(c) == c \in CharsOf(Lowers) \cup CharsOf(Uppers) \cup CharsOf(Digits) \cup {"_"}
\* ["\']
IsQuote(c) == c \in {"\"", "'"}

LowerChar(c) ==
    IF c \in CharsOf(Uppers)
    THEN Ch(Lowers, CHOOSE i \in 1..Len(Uppers) : Ch(Uppers, i) = c)
    ELSE c

\* str.lower()
RECURSIVE Lower(_)
Lower(s) == IF s = "" THEN "" ELSE LowerChar(Ch(s, 1)) \o Lower(SubSeq(s, 2, Len(s)))

\* str.strip()
Strip(s) ==
    LET keep == {i \in 1..Len(s) : ~IsSpace(Ch(s, i))}
    IN  IF keep = {} THEN ""
        ELSE SubSeq(s, CHOOSE i \in keep : \A j \in keep : i <= j,
                       CHOOSE i \in keep : \A j \in keep : i >= j)

\* The position after the whitespace that starts at i: where \s* stops when
\* the pattern continues with a character that is not whitespace.
SkipSpace(s, i) ==
    CHOOSE j \in i..(Len(s) + 1) :
        /\ \A k \in i..(j - 1) : IsSpace(Ch(s, k))
        /\ ~IsSpace(Ch(s, j))

\* \b at the gap before position i
WordBoundary(s, i) == IsWord(Ch(s, i - 1)) # IsWord(Ch(s, i))

(***************************************************************************)
(* Issue and Severity                                                      *)
(***************************************************************************)

\* Python's None
None == "<None>"

\* The members of the enum Severity, and the value of each
Severities == {"CRITICAL", "ERROR", "WARNING", "INFO"}

SeverityValue(sev) ==
    CASE sev = "CRITICAL" -> "critical"
      [] sev = "ERROR"    -> "error"
      [] sev = "WARNING"  -> "warning"
      [] sev = "INFO"     -> "info"

\* The dataclass Issue
Issue(line_number, severity, issue_type, description, code_snippet, suggested_fix, explanation, cwe_id) ==
    [ line_number   |-> line_number,
      severity      |-> severity,
      issue_type    |-> issue_type,
      description   |-> description,
      code_snippet  |-> code_snippet,
      suggested_fix |-> suggested_fix,
      explanation   |-> explanation,
      cwe_id        |-> cwe_id ]

\* <<iss>> when cond holds: `if cond: self.issues.append(iss)`
AppendIf(cond, iss) == IF cond THEN <<iss>> ELSE <<>>

(***************************************************************************)
(* _check_security: the patterns                                           *)
(***************************************************************************)

\* re.search(r'execute\s*\(["\'].*%s.*["\']\s*%', line)
SqlInjectionMatch(line) ==
    \E i \in 1..Len(line) :
        /\ StartsAt(line, i, "execute")
        /\ LET p == SkipSpace(line, i + 7)
           IN  /\ Ch(line, p) = "("
               /\ IsQuote(Ch(line, p + 1))
               /\ \E j \in (p + 2)..Len(line) :
                      /\ StartsAt(line, j, "%s")
                      /\ \E k \in (j + 2)..Len(line) :
                             /\ IsQuote(Ch(line, k))
                             /\ Ch(line, SkipSpace(line, k + 1)) = "%"

\* prefix.*\+.*\) somewhere in the line
CallWithConcat(line, prefix) ==
    \E i \in 1..Len(line) :
        /\ StartsAt(line, i, prefix)
        /\ \E j \in (i + Len(prefix))..Len(line) :
               /\ Ch(line, j) = "+"
               /\ \E k \in (j + 1)..Len(line) : Ch(line, k) = ")"

\* re.search(r'os\.system\(.*\+.*\)|subprocess\.(call|run)\(.*\+.*\)', line)
CommandInjectionMatch(line) ==
    \/ CallWithConcat(line, "os.system(")
    \/ CallWithConcat(line, "subprocess.call(")
    \/ CallWithConcat(line, "subprocess.run(")

CredentialNames == <<"password", "passwd", "pwd", "secret", "token", "api_key">>

\* name\s*=\s*["\'][^"\']+["\'] with the name at position i of `text`, the
\* rest matched on `line`
CredentialAssignAt(line, text, i, name) ==
    /\ StartsAt(text, i, name)
    /\ LET e == SkipSpace(line, i + Len(name))
       IN  /\ Ch(line, e) = "="
           /\ LET q == SkipSpace(line, e + 1)
              IN  /\ IsQuote(Ch(line, q))
                  /\ \E r \in (q + 2)..Len(line) :
                         /\ IsQuote(Ch(line, r))
                         /\ \A m \in (q + 1)..(r - 1) : ~IsQuote(Ch(line, m))

\* re.search(r'(password|passwd|pwd|secret|token|api_key)\s*=\s*["\'][^"\']+["\']',
\*           line, re.IGNORECASE)
HardcodedCredentialMatch(line) ==
    \E n \in 1..Len(CredentialNames) : \E i \in 1..Len(line) :
        CredentialAssignAt(line, Lower(line), i, CredentialNames[n])

\* 'md5' in line.lower() or 'sha1' in line.lower()
WeakCryptoMatch(line) ==
    Contains(Lower(line), "md5") \/ Contains(Lower(line), "sha1")

\* re.search(r'\beval\s*\(', line)
EvalMatch(line) ==
    \E i \in 1..Len(line) :
        /\ StartsAt(line, i, "eval")
        /\ WordBoundary(line, i)
        /\ Ch(line, SkipSpace(line, i + 4)) = "("

\* 'pickle.loads' in line
PickleMatch(line) == Contains(line, "pickle.loads")

(***************************************************************************)
(* _check_performance: the patterns                                        *)
(***************************************************************************)

\* '+=' in line and any(word in line for word in ['list', 'array', '[]'])
ListAugmentMatch(line) ==
    /\ Contains(line, "+=")
    /\ \E word \in {"list", "array", "[]"} : Contains(line, word)

\* line.count('+') > 2 and '"' in line or "'" in line
StringConcatMatch(line) ==
    \/ (Count(line, "+") > 2 /\ Contains(line, "\""))
    \/ Contains(line, "'")

\* 'global' in line
GlobalMatch(line) == Contains(line, "global")

(***************************************************************************)
(* _check_code_smells: the patterns                                        *)
(***************************************************************************)

MaxLineLength == 120
SnippetLength == 50

\* re.search(r'\b\d{4,}\b', line)
MagicNumberMatch(line) ==
    \E i \in 1..Len(line) : \E j \in (i + 3)..Len(line) :
        /\ \A k \in i..j : IsDigit(Ch(line, k))
        /\ WordBoundary(line, i)
        /\ WordBoundary(line, j + 1)

\* line.strip().startswith('#') and any(char in line for char in ['(', ')', '=', '.'])
CommentedCodeMatch(line) ==
    /\ StartsAt(Strip(line), 1, "#")
    /\ \E char \in {"(", ")", "=", "."} : Contains(line, char)

(***************************************************************************)
(* _suggest_type_hints: the patterns                                       *)
(***************************************************************************)

\* The position after the word characters that start at i
SkipWord(s, i) ==
    CHOOSE j \in i..(Len(s) + 1) :
        /\ \A k \in i..(j - 1) : IsWord(Ch(s, k))
        /\ ~IsWord(Ch(s, j))

\* re.match(r'^\s*def\s+\w+\s*\([^)]*\)\s*:', line)
DefLineMatch(line) ==
    LET d == SkipSpace(line, 1)
    IN  /\ StartsAt(line, d, "def")
        /\ LET n == SkipSpace(line, d + 3)
           IN  /\ n > d + 3
               /\ LET w == SkipWord(line, n)
                  IN  /\ w > n
                      /\ LET p == SkipSpace(line, w)
                         IN  /\ Ch(line, p) = "("
                             /\ \E c \in (p + 1)..Len(line) :
                                    /\ Ch(line, c) = ")"
                                    /\ \A m \in (p + 1)..(c - 1) : Ch(line, m) # ")"
                                    /\ Ch(line, SkipSpace(line, c + 1)) = ":"

\* line.split('(')[1].split(')')[0], for a line that holds a '('
FirstParenText(line) ==
    LET open == CHOOSE i \in 1..Len(line) :
                    Ch(line, i) = "(" /\ \A j \in 1..(i - 1) : Ch(line, j) # "("
        stop == CHOOSE i \in (open + 1)..(Len(line) + 1) :
                    /\ Ch(line, i) \in {"(", ")", ""}
                    /\ \A j \in (open + 1)..(i - 1) : Ch(line, j) \notin {"(", ")"}
    IN  SubSeq(line, open + 1, stop - 1)

\* '->' not in line and ':' not in line.split('(')[1].split(')')[0]
NoTypeHints(line) ==
    /\ ~Contains(line, "->")
    /\ ~Contains(FirstParenText(line), ":")

(***************************************************************************)
(* The statement catalogue.  A source is a sequence of catalogue           *)
(* statements, its text their lines joined by '\n'.  StmtParse and         *)
(* StmtNodes tabulate what ast.parse does with each statement alone: the   *)
(* outcome (a tree, a SyntaxError with its lineno and msg, or an exception *)
(* that is no SyntaxError), and the nodes of the tree the passes look at,  *)
(* in ast.walk's order within the statement, each with its depth below the *)
(* Module node and its lineno within the statement.  "~" in a line stands  *)
(* for the lone surrogate U+DC80, which the parser cannot encode, and "^"  *)
(* for the null byte, which it rejects with a SyntaxError (outcome         *)
(* "NullBytes" in StmtParse).                                              *)
(***************************************************************************)

Target(kind, id) == [kind |-> kind, id |-> id]

Node(depth, type, id, targets, ctx, bound, lineno, nvalues) ==
    [ depth |-> depth, type |-> type, id |-> id, targets |-> targets,
      ctx |-> ctx, bound |-> bound, lineno |-> lineno, nvalues |-> nvalues ]

\* ast.FunctionDef(name)
FunctionDefNode(depth, name, lineno) ==
    Node(depth, "FunctionDef", name, <<>>, "", FALSE, lineno, 0)
\* ast.Assign(targets)
AssignNode(depth, targets, lineno) ==
    Node(depth, "Assign", "", targets, "", FALSE, lineno, 0)
\* ast.Name(id, ctx)
NameNode(depth, id, ctx, lineno) ==
    Node(depth, "Name", id, <<>>, ctx, FALSE, lineno, 0)
\* ast.ExceptHandler(type, name): id is type.id when type is a Name, bound
\* tells whether the handler has a name
ExceptHandlerNode(depth, type_id, bound, lineno) ==
    Node(depth, "ExceptHandler", type_id, <<>>, "", bound, lineno, 0)
\* ast.BoolOp(values)
BoolOpNode(depth, nvalues, lineno) ==
    Node(depth, "BoolOp", "", <<>>, "", FALSE, lineno, nvalues)
\* ast.If, ast.While, ast.For
BranchNode(depth, type, lineno) ==
    Node(depth, type, "", <<>>, "", FALSE, lineno, 0)

StmtNames == <<"S_cred", "S_triple", "S_sqlpair", "S_sqldirect", "S_x", "S_y", "S_def", "S_try", "S_synerr", "S_surr", "S_kitchen", "S_nested", "S_exec", "S_branch", "S_nul", "S_concat", "S_while", "S_comment">>

StmtLines ==
  [ S_cred |-> <<"password = \"admin123\"">>,
    S_triple |-> <<"secret = \"\"\"s3\"\"\"">>,
    S_sqlpair |-> <<"query = \"SELECT * FROM t WHERE id = '%s'\" % uid", "cursor.execute(query)">>,
    S_sqldirect |-> <<"cursor.execute(\"SELECT * FROM t WHERE id = '%s'\" % uid)">>,
    S_x |-> <<"x = 1">>,
    S_y |-> <<"y = 2">>,
    S_def |-> <<"def f(a): return a">>,
    S_try |-> <<"try: risky()", "except Exception: pass">>,
    S_synerr |-> <<"def f(:">>,
    S_surr |-> <<"s = \"~\"">>,
    S_kitchen |-> <<"for b in md5: global list; TOKEN = \"k\"; list += eval(pickle.loads(b))", "for b in md5: global list; TOKEN = \"k\"; list += eval(pickle.loads(b))">>,
    S_nested |-> <<"def f():", "    def g(): return f">>,
    S_exec |-> <<"exec(cmd)">>,
    S_branch |-> <<"if a or b: pass", "while a and b and c: pass">>,
    S_nul |-> <<"x = 1^">>,
    S_concat |-> <<"s = \"a\" + b + c + d">>,
    S_while |-> <<"while n:", "    items_list += [n]">>,
    S_comment |-> <<"  # note", "  ", "x = 1">> ]

StmtParse ==
  [ S_cred |-> [outcome |-> "ok", lineno |-> 0, msg |-> ""],
    S_triple |-> [outcome |-> "ok", lineno |-> 0, msg |-> ""],
    S_sqlpair |-> [outcome |-> "ok", lineno |-> 0, msg |-> ""],
    S_sqldirect |-> [outcome |-> "ok", lineno |-> 0, msg |-> ""],
    S_x |-> [outcome |-> "ok", lineno |-> 0, msg |-> ""],
    S_y |-> [outcome |-> "ok", lineno |-> 0, msg |-> ""],
    S_def |-> [outcome |-> "ok", lineno |-> 0, msg |-> ""],
    S_try |-> [outcome |-> "ok", lineno |-> 0, msg |-> ""],
    S_synerr |-> [outcome |-> "SyntaxError", lineno |-> 1, msg |-> "invalid syntax"],
    S_surr |-> [outcome |-> "OtherError", lineno |-> 0, msg |-> "UnicodeEncodeError"],
    S_kitchen |-> [outcome |-> "ok", lineno |-> 0, msg |-> ""],
    S_nested |-> [outcome |-> "ok", lineno |-> 0, msg |-> ""],
    S_exec |-> [outcome |-> "ok", lineno |-> 0, msg |-> ""],
    S_branch |-> [outcome |-> "ok", lineno |-> 0, msg |-> ""],
    S_nul |-> [outcome |-> "NullBytes", lineno |-> 0, msg |-> "source code string cannot contain null bytes"],
    S_concat |-> [outcome |-> "ok", lineno |-> 0, msg |-> ""],
    S_while |-> [outcome |-> "ok", lineno |-> 0, msg |-> ""],
    S_comment |-> [outcome |-> "ok", lineno |-> 0, msg |-> ""] ]

StmtNodes ==
  [ S_cred |->
      <<AssignNode(1, <<Target("Name", "password")>>, 1),
        NameNode(2, "password", "Store", 1)>>,
    S_triple |->
      <<AssignNode(1, <<Target("Name", "secret")>>, 1),
        NameNode(2, "secret", "Store", 1)>>,
    S_sqlpair |->
      <<AssignNode(1, <<Target("Name", "query")>>, 1),
        NameNode(2, "query", "Store", 1),
        NameNode(3, "uid", "Load", 1),
        NameNode(3, "query", "Load", 2),
        NameNode(4, "cursor", "Load", 2)>>,
    S_sqldirect |->
      <<NameNode(4, "cursor", "Load", 1),
        NameNode(4, "uid", "Load", 1)>>,
    S_x |->
      <<AssignNode(1, <<Target("Name", "x")>>, 1),
        NameNode(2, "x", "Store", 1)>>,
    S_y |->
      <<AssignNode(1, <<Target("Name", "y")>>, 1),
        NameNode(2, "y", "Store", 1)>>,
    S_def |->
      <<FunctionDefNode(1, "f", 1),
        NameNode(3, "a", "Load", 1)>>,
    S_try |->
      <<ExceptHandlerNode(2, "Exception", FALSE, 2),
        NameNode(3, "Exception", "Load", 2),
        NameNode(4, "risky", "Load", 1)>>,
    S_synerr |->
      <<>>,
    S_surr |->
      <<>>,
    S_kitchen |->
      <<BranchNode(1, "For", 1),
        BranchNode(1, "For", 2),
        NameNode(2, "b", "Store", 1),
        NameNode(2, "md5", "Load", 1),
        AssignNode(2, <<Target("Name", "TOKEN")>>, 1),
        NameNode(2, "b", "Store", 2),
        NameNode(2, "md5", "Load", 2),
        AssignNode(2, <<Target("Name", "TOKEN")>>, 2),
        NameNode(3, "TOKEN", "Store", 1),
        NameNode(3, "list", "Store", 1),
        NameNode(3, "TOKEN", "Store", 2),
        NameNode(3, "list", "Store", 2),
        NameNode(4, "eval", "Load", 1),
        NameNode(4, "eval", "Load", 2),
        NameNode(5, "b", "Load", 1),
        NameNode(5, "b", "Load", 2),
        NameNode(6, "pickle", "Load", 1),
        NameNode(6, "pickle", "Load", 2)>>,
    S_nested |->
      <<FunctionDefNode(1, "f", 1),
        FunctionDefNode(2, "g", 2),
        NameNode(4, "f", "Load", 2)>>,
    S_exec |->
      <<NameNode(3, "exec", "Load", 1),
        NameNode(3, "cmd", "Load", 1)>>,
    S_branch |->
      <<BranchNode(1, "If", 1),
        BranchNode(1, "While", 2),
        BoolOpNode(2, 2, 1),
        BoolOpNode(2, 3, 2),
        NameNode(3, "a", "Load", 1),
        NameNode(3, "b", "Load", 1),
        NameNode(3, "a", "Load", 2),
        NameNode(3, "b", "Load", 2),
        NameNode(3, "c", "Load", 2)>>,
    S_nul |->
      <<>>,
    S_concat |->
      <<AssignNode(1, <<Target("Name", "s")>>, 1),
        NameNode(2, "s", "Store", 1),
        NameNode(3, "d", "Load", 1),
        NameNode(4, "c", "Load", 1),
        NameNode(5, "b", "Load", 1)>>,
    S_while |->
      <<BranchNode(1, "While", 1),
        NameNode(2, "n", "Load", 1),
        NameNode(3, "items_list", "Store", 2),
        NameNode(4, "n", "Load", 2)>>,
    S_comment |->
      <<AssignNode(1, <<Target("Name", "x")>>, 3),
        NameNode(2, "x", "Store", 3)>> ]

AllNames == <<"Exception", "TOKEN", "a", "b", "c", "cmd", "cursor", "d", "eval", "exec", "f", "g", "items_list", "list", "md5", "n", "password", "pickle", "query", "risky", "s", "secret", "uid", "x", "y">>

\* The assignments of a non-empty string literal to a name in each
\* statement's tree: the line of the assignment and the name
StmtStrAssigns ==
  [ S_cred |-> <<[lineno |-> 1, id |-> "password"]>>,
    S_triple |-> <<[lineno |-> 1, id |-> "secret"]>>,
    S_sqlpair |-> <<>>,
    S_sqldirect |-> <<>>,
    S_x |-> <<>>,
    S_y |-> <<>>,
    S_def |-> <<>>,
    S_try |-> <<>>,
    S_synerr |-> <<>>,
    S_surr |-> <<>>,
    S_kitchen |-> <<[lineno |-> 1, id |-> "TOKEN"], [lineno |-> 2, id |-> "TOKEN"]>>,
    S_nested |-> <<>>,
    S_exec |-> <<>>,
    S_branch |-> <<>>,
    S_nul |-> <<>>,
    S_concat |-> <<>>,
    S_while |-> <<>>,
    S_comment |-> <<>> ]

\* The names of the catalogue's trees, in the order AllNames lists them
NameIndex(name) == CHOOSE i \in 1..Len(AllNames) : AllNames[i] = name

\* The lines of a source: code.split('\n').  The empty source has one
\* empty line.
RECURSIVE StmtsLines(_)
StmtsLines(code) ==
    IF code = <<>> THEN <<>>
    ELSE StmtLines[Head(code)] \o StmtsLines(Tail(code))

Lines(code) == IF code = <<>> THEN <<"">> ELSE StmtsLines(code)

\* The number of lines before statement k of the source
LinesBefore(code, k) == Len(StmtsLines(SubSeq(code, 1, k - 1)))

\* The depth of the deepest node of the catalogue
MaxDepth ==
    LET depths == UNION {{StmtNodes[StmtNames[k]][n].depth :
                              n \in 1..Len(StmtNodes[StmtNames[k]])} :
                         k \in 1..Len(StmtNames)}
    IN  CHOOSE d \in depths : \A e \in depths : e <= d

\* The nodes at depth d of the statements k.. of the source, their lineno
\* counted from the first line of the source
RECURSIVE WalkLevel(_, _, _)
WalkLevel(code, d, k) ==
    IF k > Len(code) THEN <<>>
    ELSE LET here  == SelectSeq(StmtNodes[code[k]], LAMBDA n : n.depth = d)
             first == LinesBefore(code, k)
         IN  [n \in 1..Len(here) |->
                 [here[n] EXCEPT !.lineno = here[n].lineno + first]]
             \o WalkLevel(code, d, k + 1)

RECURSIVE WalkFrom(_, _)
WalkFrom(code, d) ==
    IF d > MaxDepth THEN <<>>
    ELSE WalkLevel(code, d, 1) \o WalkFrom(code, d + 1)

\* ast.walk(tree): breadth first, so level by level, and on one level the
\* nodes of an earlier statement before those of a later one
Walk(code) == WalkFrom(code, 1)

\* The statements of the source that ast.parse fails on with `outcome`
Failing(code, outcome) ==
    {k \in 1..Len(code) : StmtParse[code[k]].outcome = outcome}

\* ast.parse(code).  A character the parser cannot encode raises before any
\* statement is parsed; otherwise a null byte anywhere raises a SyntaxError
\* that has no lineno and no text (None: 0 and None here); otherwise the
\* first statement with a syntax error raises SyntaxError, whose text is
\* that line with its '\n'.
Parse(code) ==
    IF Failing(code, "OtherError") # {}
    THEN [outcome |-> "OtherError", lineno |-> 0, msg |-> "", text |-> "", nodes |-> <<>>]
    ELSE IF Failing(code, "NullBytes") # {}
    THEN LET k == CHOOSE i \in Failing(code, "NullBytes") : TRUE
         IN  [outcome |-> "SyntaxError", lineno |-> 0,
              msg |-> StmtParse[code[k]].msg, text |-> None, nodes |-> <<>>]
    ELSE IF Failing(code, "SyntaxError") # {}
    THEN LET k  == CHOOSE i \in Failing(code, "SyntaxError") :
                       \A j \in Failing(code, "SyntaxError") : i <= j
             ln == LinesBefore(code, k) + StmtParse[code[k]].lineno
         IN  [outcome |-> "SyntaxError", lineno |-> ln,
              msg |-> StmtParse[code[k]].msg,
              text |-> Lines(code)[ln] \o "\n", nodes |-> <<>>]
    ELSE [outcome |-> "ok", lineno |-> 0, msg |-> "", text |-> "", nodes |-> Walk(code)]

(***************************************************************************)
(* What the passes test on a line, and the line stripped, worked out once  *)
(* for each line of the catalogue.                                         *)
(***************************************************************************)

CatalogueLines ==
    {""} \cup UNION {{StmtLines[s][n] : n \in 1..Len(StmtLines[s])} :
                     s \in DOMAIN StmtLines}

OnLine ==
    [line \in CatalogueLines |->
        [ strip              |-> Strip(line),
          sql_injection      |-> SqlInjectionMatch(line),
          command_injection  |-> CommandInjectionMatch(line),
          credential         |-> HardcodedCredentialMatch(line),
          weak_crypto        |-> WeakCryptoMatch(line),
          eval               |-> EvalMatch(line),
          pickle             |-> PickleMatch(line),
          list_augment       |-> ListAugmentMatch(line),
          has_for            |-> Contains(line, "for"),
          string_concat      |-> StringConcatMatch(line),
          global             |-> GlobalMatch(line),
          magic_number       |-> MagicNumberMatch(line) /\ ~Contains(line, "return"),
          commented_code     |-> CommentedCodeMatch(line),
          semicolons         |-> Count(line, ";"),
          untyped_def        |-> DefLineMatch(line) /\ NoTypeHints(line) ] ]

(***************************************************************************)
(* The line-oriented passes.  Each takes the analyzer's issue list and the *)
(* lines of the source and gives the issue list after the pass.            *)
(***************************************************************************)

\* for i, line in enumerate(lines, 1): what the loop appends, given what its
\* body appends for each line, one line after the other
RECURSIVE EachLine(_)
EachLine(appended) ==
    IF appended = <<>> THEN <<>>
    ELSE Head(appended) \o EachLine(Tail(appended))

\* The body of the loop of _check_security for line i
SecurityLine(lines, i) ==
    LET line == lines[i]
    IN  AppendIf(OnLine[line].sql_injection,
            Issue(i, "CRITICAL", "security",
                  "SQL Injection vulnerability detected", OnLine[line].strip,
                  "Use parameterized queries: cursor.execute(\"SELECT * FROM users WHERE id = ?\", (user_id,))",
                  "Never use string formatting with SQL queries", "CWE-89"))
     \o AppendIf(OnLine[line].command_injection,
            Issue(i, "CRITICAL", "security",
                  "Command Injection vulnerability", OnLine[line].strip,
                  "Use subprocess with list arguments: subprocess.run([\"command\", arg1, arg2])",
                  "Never concatenate user input into shell commands", "CWE-78"))
     \o AppendIf(OnLine[line].credential,
            Issue(i, "CRITICAL", "security",
                  "Hardcoded credentials detected", OnLine[line].strip,
                  "Use environment variables: password = os.getenv(\"DB_PASSWORD\")",
                  "Never hardcode sensitive credentials in code", "CWE-798"))
     \o AppendIf(OnLine[line].weak_crypto,
            Issue(i, "WARNING", "security",
                  "Weak cryptographic algorithm", OnLine[line].strip,
                  "Use SHA-256 or better: hashlib.sha256(data.encode())",
                  "MD5 and SHA1 are cryptographically broken", "CWE-327"))
     \o AppendIf(OnLine[line].eval,
            Issue(i, "CRITICAL", "security",
                  "Dangerous eval() usage", OnLine[line].strip,
                  "Use ast.literal_eval() for safe evaluation or parse manually",
                  "eval() can execute arbitrary code", "CWE-95"))
     \o AppendIf(OnLine[line].pickle,
            Issue(i, "WARNING", "security",
                  "Unsafe deserialization with pickle", OnLine[line].strip,
                  "Use json.loads() for untrusted data",
                  "Pickle can execute arbitrary code during deserialization", "CWE-502"))

\* The body of the loop of _check_performance for line i
PerformanceLine(lines, i) ==
    LET line == lines[i]
    IN  AppendIf(OnLine[line].list_augment /\ i > 1 /\ OnLine[lines[i - 1]].has_for,
            Issue(i, "WARNING", "performance",
                  "Inefficient list concatenation in loop", OnLine[line].strip,
                  "Use list.append() or list comprehension",
                  "List concatenation is O(n), append is O(1)", None))
     \o AppendIf(OnLine[line].string_concat,
            Issue(i, "INFO", "performance",
                  "Multiple string concatenations", OnLine[line].strip,
                  "Use f-string or str.join(): f\"{var1}{var2}{var3}\"",
                  "String concatenation creates intermediate objects", None))
     \o AppendIf(OnLine[line].global,
            Issue(i, "WARNING", "performance",
                  "Global variable usage affects performance", OnLine[line].strip,
                  "Use local variables or pass as parameters",
                  "Global lookups are slower than local lookups", None))

\* The body of the loop of _check_code_smells for line i
CodeSmellsLine(lines, i) ==
    LET line == lines[i]
    IN  AppendIf(Len(line) > MaxLineLength,
            Issue(i, "INFO", "style",
                  "Line too long (>120 characters)",
                  SubSeq(line, 1, SnippetLength) \o "...",
                  "Break into multiple lines or refactor", None, None))
     \o AppendIf(OnLine[line].magic_number,
            Issue(i, "INFO", "style",
                  "Magic number detected", OnLine[line].strip,
                  "Define as named constant: MAX_RETRIES = 1000",
                  "Magic numbers reduce code readability", None))
     \o AppendIf(OnLine[line].commented_code,
            Issue(i, "INFO", "style",
                  "Commented out code", OnLine[line].strip,
                  "Remove commented code, use version control",
                  "Commented code creates clutter", None))
     \o AppendIf(OnLine[line].semicolons > 0,
            Issue(i, "WARNING", "style",
                  "Multiple statements on one line", OnLine[line].strip,
                  "Put each statement on separate line", None, None))

\* The body of the loop of _suggest_type_hints for line i
TypeHintsLine(lines, i) ==
    LET line == lines[i]
    IN  AppendIf(OnLine[line].untyped_def,
            Issue(i, "INFO", "type_hint",
                  "Function missing type hints", OnLine[line].strip,
                  "def function(param: str) -> int:",
                  "Type hints improve code clarity and catch bugs", None))

(***************************************************************************)
(* The tree-based passes                                                   *)
(***************************************************************************)

\* The mutant of OrNumber: the lineno taken as the exception gives it.
OrNumberAsGiven(lineno, default) == lineno

\* `lineno or default`: a lineno that is None or 0 (0 here) gives the default
OrNumber(lineno, default) == IF lineno = 0 THEN default ELSE lineno

\* `text or default`: a text that is None or empty gives the default
OrText(text, default) == IF text = None \/ text = "" THEN default ELSE text

\* _suggest_syntax_fix
SuggestSyntaxFix(msg) ==
    IF Contains(msg, "invalid syntax")
    THEN "Check for missing colons, parentheses, or quotes"
    ELSE IF Contains(msg, "EOF")
    THEN "Check for unclosed brackets, quotes, or parentheses"
    ELSE None

\* _check_ast_patterns
CheckAstPatterns(issues, nodes) ==
    LET hit(n) == /\ n.type = "ExceptHandler"
                  /\ n.id = "Exception"
                  /\ ~n.bound
        found == SelectSeq(nodes, hit)
    IN  issues \o
        [n \in 1..Len(found) |->
            Issue(found[n].lineno, "INFO", "style",
                  "Catching Exception without using it", "",
                  "except Exception as e: # Use e for logging", None, None)]

\* Whether _check_syntax raises: ast.parse raises something its
\* `except SyntaxError` does not catch
CheckSyntaxRaises(code) == Parse(code).outcome = "OtherError"

\* _check_syntax, when it returns
CheckSyntax(issues, code) ==
    LET tree == Parse(code)
    IN  IF tree.outcome = "ok"
        THEN CheckAstPatterns(issues, tree.nodes)
        ELSE Append(issues,
                 Issue(OrNumber(tree.lineno, 1), "ERROR", "syntax",
                       "Syntax Error: " \o tree.msg, OrText(tree.text, ""),
                       SuggestSyntaxFix(tree.msg), None, None))

\* The elements of a set of names in the order a `for` over the set visits
\* them.  The order follows the strings' hashes, which the interpreter
\* salts once per process: the model keeps two of the orders.
HashSeeds == {"ascending", "descending"}

SetOrder(names, seed) ==
    LET up   == SelectSeq(AllNames, LAMBDA n : n \in names)
        down == [i \in 1..Len(up) |-> up[Len(up) + 1 - i]]
    IN  IF seed = "ascending" THEN up ELSE down

\* _detect_dead_code; its bare `except: pass` swallows every parse failure
DetectDeadCode(issues, code, seed) ==
    LET tree == Parse(code)
        nodes == tree.nodes
        defined_names ==
            {nodes[n].id : n \in {m \in 1..Len(nodes) : nodes[m].type = "FunctionDef"}}
            \cup UNION {{nodes[n].targets[t].id :
                            t \in {u \in 1..Len(nodes[n].targets) :
                                       nodes[n].targets[u].kind = "Name"}} :
                        n \in {m \in 1..Len(nodes) : nodes[m].type = "Assign"}}
        used_names ==
            {nodes[n].id : n \in {m \in 1..Len(nodes) :
                                      nodes[m].type = "Name" /\ nodes[m].ctx = "Load"}}
        unused == SetOrder(defined_names \ used_names, seed)
        kept == SelectSeq(unused, LAMBDA name : ~StartsAt(name, 1, "_"))
    IN  IF tree.outcome # "ok" THEN issues
        ELSE issues \o
             [n \in 1..Len(kept) |->
                 Issue(1, "INFO", "dead_code",
                       "Unused variable or function: '" \o kept[n] \o "'", "",
                       "Remove unused " \o kept[n] \o " or prefix with _ if intentional",
                       None, None)]

\* The mutant of ComplexityOf: the boolean operators left out.
RECURSIVE ComplexityOfBranchesOnly(_)
ComplexityOfBranchesOnly(nodes) ==
    IF nodes = <<>> THEN 0
    ELSE (IF Head(nodes).type \in {"If", "While", "For", "ExceptHandler"} THEN 1 ELSE 0)
         + ComplexityOfBranchesOnly(Tail(nodes))

\* sum(... for n in nodes) of _calculate_complexity
RECURSIVE ComplexityOf(_)
ComplexityOf(nodes) ==
    IF nodes = <<>> THEN 0
    ELSE (IF Head(nodes).type \in {"If", "While", "For", "ExceptHandler"} THEN 1
          ELSE IF Head(nodes).type = "BoolOp" THEN Head(nodes).nvalues - 1
          ELSE 0)
         + ComplexityOf(Tail(nodes))

\* _calculate_complexity; 1.0 when the parse fails
CalculateComplexity(code) ==
    LET tree == Parse(code)
    IN  IF tree.outcome = "ok" THEN 1 + ComplexityOf(tree.nodes) ELSE 1

(***************************************************************************)
(* Metrics, summary and report                                             *)
(***************************************************************************)

Max(a, b) == IF a >= b THEN a ELSE b

SecurityPenalty == 20
PerformancePenalty == 10
ErrorPenalty == 15
WarningPenalty == 5
MaintainabilityFloor == 20

\* The mutant of SecurityScore: the floor max(0, ...) left out.
SecurityScoreNoFloor(security_issues) == 100 - (security_issues * SecurityPenalty)

\* security_score = max(0, 100 - (security_issues * 20))
SecurityScore(security_issues) ==
    Max(0, 100 - (security_issues * SecurityPenalty))

\* The mutant of PerformanceScore: the penalty of a security issue taken.
PerformanceScoreSecurityPenalty(performance_issues) ==
    Max(0, 100 - (performance_issues * SecurityPenalty))

\* performance_score = max(0, 100 - (performance_issues * 10))
PerformanceScore(performance_issues) ==
    Max(0, 100 - (performance_issues * PerformancePenalty))

\* The mutant of Maintainability: the warnings left out.
MaintainabilityErrorsOnly(errors, warnings) ==
    Max(MaintainabilityFloor, 100 - (errors * ErrorPenalty))

\* maintainability = max(20, 100 - (errors * 15) - (warnings * 5))
Maintainability(errors, warnings) ==
    Max(MaintainabilityFloor, 100 - (errors * ErrorPenalty) - (warnings * WarningPenalty))

\* The mutant of IsCodeLine: the test l.strip() left out, a blank line counted.
IsCodeLineNotComment(l) == ~StartsAt(OnLine[l].strip, 1, "#")

\* l.strip() and not l.strip().startswith('#')
IsCodeLine(l) == OnLine[l].strip # "" /\ ~StartsAt(OnLine[l].strip, 1, "#")

\* The mutant of IsCommentLine: the line tested as it is, not stripped.
IsCommentLineUnstripped(l) == StartsAt(l, 1, "#")

\* l.strip().startswith('#')
IsCommentLine(l) == StartsAt(OnLine[l].strip, 1, "#")

\* _calculate_metrics.  code_to_comment_ratio is the pair of its numerator
\* and denominator.
CalculateMetrics(issues, lines) ==
    LET code_lines == Len(SelectSeq(lines, LAMBDA l : IsCodeLine(l)))
        security_issues == Len(SelectSeq(issues, LAMBDA i : i.issue_type = "security"))
        performance_issues == Len(SelectSeq(issues, LAMBDA i : i.issue_type = "performance"))
        errors == Len(SelectSeq(issues, LAMBDA i : i.severity = "ERROR"))
        warnings == Len(SelectSeq(issues, LAMBDA i : i.severity = "WARNING"))
    IN  [ total_lines |-> Len(lines),
          code_lines |-> code_lines,
          comment_lines |-> Len(SelectSeq(lines, LAMBDA l : IsCommentLine(l))),
          blank_lines |-> Len(SelectSeq(lines, LAMBDA l : OnLine[l].strip = "")),
          security_score |-> SecurityScore(security_issues),
          performance_score |-> PerformanceScore(performance_issues),
          maintainability |-> Maintainability(errors, warnings),
          code_to_comment_ratio |-> <<code_lines, Max(1, Len(lines) - code_lines)>> ]

\* _get_score_label
GetScoreLabel(score) ==
    IF score >= 80 THEN "Excellent"
    ELSE IF score >= 60 THEN "Good"
    ELSE IF score >= 40 THEN "Needs Improvement"
    ELSE "Critical"

\* _generate_recommendations
GenerateRecommendations(issues) ==
    LET sec  == AppendIf(Len(SelectSeq(issues, LAMBDA i : i.issue_type = "security")) > 0,
                         "Fix security vulnerabilities immediately")
        perf == AppendIf(Len(SelectSeq(issues, LAMBDA i : i.issue_type = "performance")) > 0,
                         "Optimize performance bottlenecks")
    IN  IF sec \o perf = <<>> THEN <<"Code quality is good! Keep it up!">>
        ELSE sec \o perf

\* The mutant of Status: the errors left out.
StatusCriticalOnly(critical, errors) == IF critical > 0 THEN "CRITICAL" ELSE "GOOD"

\* status = "CRITICAL" if critical > 0 else "NEEDS ATTENTION" if errors > 0 else "GOOD"
Status(critical, errors) ==
    IF critical > 0 THEN "CRITICAL" ELSE IF errors > 0 THEN "NEEDS ATTENTION" ELSE "GOOD"

\* _generate_summary: the values the text is rendered from, field by field
GenerateSummary(issues, metrics) ==
    LET critical == Len(SelectSeq(issues, LAMBDA i : i.severity = "CRITICAL"))
        errors == Len(SelectSeq(issues, LAMBDA i : i.severity = "ERROR"))
        warnings == Len(SelectSeq(issues, LAMBDA i : i.severity = "WARNING"))
    IN  [ status |-> Status(critical, errors),
          total_issues |-> Len(issues),
          critical |-> critical,
          errors |-> errors,
          warnings |-> warnings,
          info |-> Len(SelectSeq(issues, LAMBDA i : i.severity = "INFO")),
          code_lines |-> metrics.code_lines,
          comment_lines |-> metrics.comment_lines,
          complexity |-> CalculateComplexity(<<>>),
          maintainability |-> metrics.maintainability,
          security_score |-> metrics.security_score,
          security_label |-> GetScoreLabel(metrics.security_score),
          performance_score |-> metrics.performance_score,
          performance_label |-> GetScoreLabel(metrics.performance_score),
          recommendations |-> GenerateRecommendations(issues) ]

\* _issue_to_dict
IssueToDict(issue) == [issue EXCEPT !.severity = SeverityValue(issue.severity)]

\* The mutant of SeverityCount: the filter on the severity left out.
SeverityCountUnfiltered(issues, severity) == Len(issues)

\* sum(1 for i in self.issues if i.severity == severity)
SeverityCount(issues, severity) == Len(SelectSeq(issues, LAMBDA i : i.severity = severity))

\* The dict analyze_code returns, built from the analyzer's issue list
BuildReport(issues, code, complexity_score, processing_time) ==
    LET metrics == CalculateMetrics(issues, Lines(code))
        summary == GenerateSummary(issues, metrics)
    IN  [ total_issues |-> Len(issues),
          critical |-> SeverityCount(issues, "CRITICAL"),
          errors |-> SeverityCount(issues, "ERROR"),
          warnings |-> SeverityCount(issues, "WARNING"),
          info |-> SeverityCount(issues, "INFO"),
          complexity_score |-> complexity_score,
          maintainability_index |-> metrics.maintainability,
          security_score |-> metrics.security_score,
          performance_score |-> metrics.performance_score,
          issues |-> [n \in 1..Len(issues) |-> IssueToDict(issues[n])],
          summary |-> summary,
          processing_time_ms |-> processing_time,
          metrics |-> metrics ]

(***************************************************************************)
(* analyze_code                                                            *)
(***************************************************************************)

OptionKeys == {"syntax", "security", "performance", "code_smells",
               "complexity", "dead_code", "type_hints"}

\* options.get(key, True)
Get(options, key) == IF key \in DOMAIN options THEN options[key] ELSE TRUE

\* _check_security
CheckSecurity(issues, code) == issues \o EachLine([i \in 1..Len(Lines(code)) |-> SecurityLine(Lines(code), i)])

\* The mutant of CheckPerformance: its issues carry a CWE identifier.
CheckPerformanceWithCwe(issues, code) ==
    LET found == EachLine([i \in 1..Len(Lines(code)) |-> PerformanceLine(Lines(code), i)])
    IN  issues \o [n \in 1..Len(found) |-> [found[n] EXCEPT !.cwe_id = "CWE-400"]]

\* _check_performance
CheckPerformance(issues, code) == issues \o EachLine([i \in 1..Len(Lines(code)) |-> PerformanceLine(Lines(code), i)])

\* _check_code_smells
CheckCodeSmells(issues, code) == issues \o EachLine([i \in 1..Len(Lines(code)) |-> CodeSmellsLine(Lines(code), i)])

\* _suggest_type_hints
SuggestTypeHints(issues, code) == issues \o EachLine([i \in 1..Len(Lines(code)) |-> TypeHintsLine(Lines(code), i)])

\* The mutant of ResetIssues: the list of the earlier call is kept.
ResetIssuesKeep(issues) == issues

\* self.issues = []
ResetIssues(issues) == <<>>

\* The mutant of PassOrder: the performance pass before the security pass.
PassOrderPerformanceFirst == <<"syntax", "performance", "security", "code_smells",
                               "complexity", "dead_code", "type_hints">>

\* The passes in the order analyze_code runs them, each named by its option
PassOrder == <<"syntax", "security", "performance", "code_smells",
               "complexity", "dead_code", "type_hints">>

\* The mutant of PassRaises: the dead-code pass lets the failure of its
\* parse out as well.
PassRaisesDeadCodeToo(pass, code) ==
    pass \in {"syntax", "dead_code"} /\ CheckSyntaxRaises(code)

\* Whether the pass raises out of analyze_code
PassRaises(pass, code) == pass = "syntax" /\ CheckSyntaxRaises(code)

\* self.issues after the pass has run on it and returned
PassIssues(pass, issues, code, seed) ==
    CASE pass = "syntax"      -> CheckSyntax(issues, code)
      [] pass = "security"    -> CheckSecurity(issues, code)
      [] pass = "performance" -> CheckPerformance(issues, code)
      [] pass = "code_smells" -> CheckCodeSmells(issues, code)
      [] pass = "complexity"  -> issues
      [] pass = "dead_code"   -> DetectDeadCode(issues, code, seed)
      [] pass = "type_hints"  -> SuggestTypeHints(issues, code)

\* complexity_score of analyze_code; 0.0 when the option is off
ComplexityScore(code, options) ==
    IF Get(options, "complexity") THEN CalculateComplexity(code) ELSE 0

\* The passes k.. of analyze_code on the issue list: the list they leave,
\* and whether one of them raised (the later ones then do not run).
RECURSIVE RunPasses(_, _, _, _, _)
RunPasses(issues, code, options, seed, k) ==
    IF k > Len(PassOrder) THEN [issues |-> issues, raised |-> FALSE]
    ELSE IF ~Get(options, PassOrder[k])
    THEN RunPasses(issues, code, options, seed, k + 1)
    ELSE IF PassRaises(PassOrder[k], code)
    THEN [issues |-> issues, raised |-> TRUE]
    ELSE RunPasses(PassIssues(PassOrder[k], issues, code, seed),
                   code, options, seed, k + 1)

\* analyze_code from its first pass to its last on a new list: what the
\* source alone gives under the options
RunAlone(code, options, seed) == RunPasses(<<>>, code, options, seed, 1)

(***************************************************************************)
(* The analyzer object and the calls of analyze_code                       *)
(***************************************************************************)

MaxStmts == 2
MaxDisabled == 2
MaxElapsed == 1
MaxCalls == 2

Calls == 1..MaxCalls

\* The sources: every text of at most MaxStmts statements of the catalogue
Sources == UNION {[1..n -> DOMAIN StmtLines] : n \in 0..MaxStmts}

\* request.options.dict(): every key present
AllEnabled == [k \in OptionKeys |-> TRUE]

\* The options dict compare_code passes: four keys, the others defaulted
CompareOptions == [k \in {"syntax", "security", "performance", "complexity"} |-> TRUE]

\* The options dict analyze_github_repo passes: five keys
RepoOptions ==
    [k \in {"syntax", "security", "performance", "code_smells", "complexity"} |-> TRUE]

\* The options dict analyze_github_pr passes: three keys
PrOptions == [k \in {"syntax", "security", "performance"} |-> TRUE]

\* The options: the full dicts with at most MaxDisabled keys off, and the
\* partial dicts of compare_code, analyze_github_repo and analyze_github_pr
OptionRecords ==
    {o \in [OptionKeys -> BOOLEAN] :
        Cardinality({k \in OptionKeys : ~o[k]}) <= MaxDisabled}
    \cup {CompareOptions, RepoOptions, PrOptions}

\* No dict returned yet
NoReport == None

VARIABLES
    hashseed,          \* the salt of the strings' hashes in the running interpreter
    issues,            \* self.issues of the analyzer object
    pc,                \* where each call of analyze_code is
    code,              \* each call's argument code, as catalogue statements
    options,           \* each call's argument options
    complexity_score,  \* each call's local complexity_score
    report,            \* the dict each call returned
    github_token,      \* self.github_token of the analyzer object
    repo_pc,           \* where the call of analyze_github_repo is
    repo_url,          \* its argument repo_url
    tree,              \* the paths of the 'tree' list the tree request returned
    fetched,           \* the file requests made so far: path and outcome
    results,           \* its local results
    repo_return,       \* the dict it returned
    requested,         \* the URLs the latest GitHub method has requested
    pr_pc,             \* where the call of analyze_github_pr is
    pr_url,            \* its argument pr_url
    pr_return,         \* the dict it returned
    issue_pc,          \* where the call of create_github_issue is
    issue_url,         \* its argument repo_url
    issue_return,      \* the dict it returned
    request,           \* the latest request to the API
    network,           \* what GitHub answered while it was handled
    response           \* the response to it

\* The variables of the call of analyze_github_repo
repoVars == <<github_token, repo_pc, repo_url, tree, fetched, results, repo_return>>

\* The variables of the calls of analyze_github_pr and create_github_issue
prVars == <<pr_pc, pr_url, pr_return>>
issueVars == <<issue_pc, issue_url, issue_return>>

\* The variables of the GitHub methods but analyze_github_repo's own
githubVars == <<requested, prVars, issueVars>>

\* The variables of the API
apiVars == <<request, network, response>>

vars == <<hashseed, issues, pc, code, options, complexity_score, report, repoVars, githubVars, apiVars>>

\* __init__ but for the token: self.issues = [], in an interpreter with some
\* salt; no call made
InitAnalyzer ==
    /\ hashseed \in HashSeeds
    /\ issues = <<>>
    /\ pc = [t \in Calls |-> "idle"]
    /\ code = [t \in Calls |-> <<>>]
    /\ options = [t \in Calls |-> AllEnabled]
    /\ complexity_score = [t \in Calls |-> 0]
    /\ report = [t \in Calls |-> NoReport]
    /\ repo_pc = "idle"
    /\ repo_url = None
    /\ tree = <<>>
    /\ fetched = <<>>
    /\ results = <<>>
    /\ repo_return = NoReport
    /\ requested = <<>>
    /\ pr_pc = "idle"
    /\ pr_url = None
    /\ pr_return = NoReport
    /\ issue_pc = "idle"
    /\ issue_url = None
    /\ issue_return = NoReport
    /\ request = [endpoint |-> "none"]
    /\ network = "none"
    /\ response = [state |-> "none", status |-> 0]

\* __init__ with the default github_token=None
Init ==
    /\ InitAnalyzer
    /\ github_token = None

\* The calls before t are over
EarlierOver(t) == \A s \in Calls : s < t => pc[s] \in {"done", "raised"}

\* analyze_code(c, o) from its first line to its return or to the exception
\* that leaves it, with no other call of the object in between
AnalyzeCode(t, sources, records) ==
    /\ pc[t] = "idle"
    /\ EarlierOver(t)
    /\ \E c \in sources, o \in records :
       \E run \in {RunPasses(ResetIssues(issues), c, o, hashseed, 1)} :
          /\ code' = [code EXCEPT ![t] = c]
          /\ options' = [options EXCEPT ![t] = o]
          /\ issues' = run.issues
          /\ IF run.raised
             THEN /\ pc' = [pc EXCEPT ![t] = "raised"]
                  /\ UNCHANGED <<complexity_score, report>>
             ELSE /\ pc' = [pc EXCEPT ![t] = "done"]
                  /\ complexity_score' =
                         [complexity_score EXCEPT ![t] = ComplexityScore(c, o)]
                  /\ \E elapsed \in 0..MaxElapsed :
                         report' = [report EXCEPT ![t] =
                             BuildReport(run.issues, c, complexity_score'[t], elapsed)]
    /\ UNCHANGED <<hashseed, repoVars, githubVars, apiVars>>

\* One call on a new analyzer object, on any source and any options
Next == AnalyzeCode(1, Sources, OptionRecords)

Spec == Init /\ [][Next]_vars

(***************************************************************************)
(* Calls one after another on one analyzer object, as batch_analyze and    *)
(* compare_code make them                                                  *)
(***************************************************************************)

SeqSources == {<<>>, <<"S_cred">>, <<"S_x", "S_y">>, <<"S_try">>, <<"S_surr">>}

SeqOptions == {AllEnabled, CompareOptions, [AllEnabled EXCEPT !["security"] = FALSE]}

NextSeq == \E t \in Calls : AnalyzeCode(t, SeqSources, SeqOptions)

SpecSeq == Init /\ [][NextSeq]_vars

\* The program is started again: a new interpreter with its own salt, and a
\* new analyzer object; the dicts returned so far stay with their callers
Restart ==
    /\ \E t \in Calls : pc[t] # "idle"
    /\ \E t \in Calls : pc[t] = "idle"
    /\ hashseed' \in HashSeeds
    /\ issues' = <<>>
    /\ UNCHANGED <<pc, code, options, complexity_score, report, repoVars, githubVars, apiVars>>

NextRestart ==
    \/ \E t \in Calls : AnalyzeCode(t, SeqSources, SeqOptions)
    \/ Restart

SpecRestart == Init /\ [][NextRestart]_vars

(***************************************************************************)
(* Calls on one analyzer object from several threads, each call a pass at  *)
(* a time                                                                  *)
(***************************************************************************)

ConcSources == {<<"S_cred">>, <<"S_x">>, <<"S_surr">>}

ConcOptions == {AllEnabled}

\* The pass after `pass`, "report" after the last one
After(pass) ==
    LET k == CHOOSE i \in 1..Len(PassOrder) : PassOrder[i] = pass
    IN  IF k = Len(PassOrder) THEN "report" ELSE PassOrder[k + 1]

\* start_time = time.time(); self.issues = []
Begin(t) ==
    /\ pc[t] = "idle"
    /\ \E c \in ConcSources, o \in ConcOptions :
          /\ code' = [code EXCEPT ![t] = c]
          /\ options' = [options EXCEPT ![t] = o]
    /\ issues' = ResetIssues(issues)
    /\ pc' = [pc EXCEPT ![t] = PassOrder[1]]
    /\ UNCHANGED <<hashseed, complexity_score, report, repoVars, githubVars, apiVars>>

\* One `if options.get(...)` statement of analyze_code with its body
RunPass(t) ==
    LET pass == pc[t]
        on == Get(options[t], pass)
    IN  /\ pass \in {PassOrder[k] : k \in 1..Len(PassOrder)}
        /\ IF on /\ PassRaises(pass, code[t])
           THEN /\ pc' = [pc EXCEPT ![t] = "raised"]
                /\ UNCHANGED <<issues, complexity_score>>
           ELSE /\ pc' = [pc EXCEPT ![t] = After(pass)]
                /\ issues' = IF on THEN PassIssues(pass, issues, code[t], hashseed)
                             ELSE issues
                /\ complexity_score' =
                       IF pass = "complexity"
                       THEN [complexity_score EXCEPT ![t] = ComplexityScore(code[t], options[t])]
                       ELSE complexity_score
        /\ UNCHANGED <<hashseed, code, options, report, repoVars, githubVars, apiVars>>

\* The metrics, the summary and the dict, from self.issues as it is now
Finish(t) ==
    /\ pc[t] = "report"
    /\ \E elapsed \in 0..MaxElapsed :
          report' = [report EXCEPT ![t] =
              BuildReport(issues, code[t], complexity_score[t], elapsed)]
    /\ pc' = [pc EXCEPT ![t] = "done"]
    /\ UNCHANGED <<hashseed, issues, code, options, complexity_score, repoVars, githubVars, apiVars>>

NextConc == \E t \in Calls : Begin(t) \/ RunPass(t) \/ Finish(t)

SpecConc == Init /\ [][NextConc]_vars

(***************************************************************************)
(* analyze_github_repo: the tree request, then one file request at a time  *)
(***************************************************************************)

\* s.replace(old, '') from position i on
RECURSIVE ReplaceFrom(_, _, _)
ReplaceFrom(s, old, i) ==
    IF i > Len(s) THEN ""
    ELSE IF StartsAt(s, i, old) THEN ReplaceFrom(s, old, i + Len(old))
    ELSE Ch(s, i) \o ReplaceFrom(s, old, i + 1)

\* s.split(sep) from position i on, `piece` being the part read so far
RECURSIVE SplitFrom(_, _, _, _)
SplitFrom(s, sep, i, piece) ==
    IF i > Len(s) THEN <<piece>>
    ELSE IF Ch(s, i) = sep THEN <<piece>> \o SplitFrom(s, sep, i + 1, "")
    ELSE SplitFrom(s, sep, i + 1, piece \o Ch(s, i))

\* repo_url.replace('https://github.com/', '').split('/')
Parts(url) == SplitFrom(ReplaceFrom(url, "https://github.com/", 1), "/", 1, "")

\* api_url of analyze_github_repo
TreeUrl(owner, repo, branch) ==
    "https://api.github.com/repos/" \o owner \o "/" \o repo \o "/git/trees/" \o branch \o "?recursive=1"

\* file_url of analyze_github_repo
FileUrl(owner, repo, path) ==
    "https://api.github.com/repos/" \o owner \o "/" \o repo \o "/contents/" \o path

\* path.endswith(suffix)
EndsWith(path, suffix) == StartsAt(path, Len(path) - Len(suffix) + 1, suffix)

\* [item for item in tree.get('tree', []) if item['path'].endswith('.py')]
PythonFiles(paths) == SelectSeq(paths, LAMBDA path : EndsWith(path, ".py"))

FileLimit == 10

\* The mutant of FirstFiles: the slice [:10] left out.
FirstFilesAll(python_files) == python_files

\* python_files[:10]
FirstFiles(python_files) ==
    SubSeq(python_files, 1, IF Len(python_files) < FileLimit THEN Len(python_files) ELSE FileLimit)

MaxTreeSize == 14
MaxRepoElapsed == 0

\* The tokens an analyzer object is made with
GithubTokens == {None, "ghp"}

\* The arguments repo_url
RepoUrls == {"https://github.com/o/r", "o"}

\* The entries of a tree: every fifth one a compiled file, the others
\* Python files
Path(i) == IF i % 5 = 0 THEN "f" \o ToString(i) \o ".pyc" ELSE "f" \o ToString(i) \o ".py"

\* The trees the tree request returns: empty, a few files, exactly
\* FileLimit Python files, and more than FileLimit of them
RepoTrees == {[i \in 1..n |-> Path(i)] : n \in {0, 4, 12, MaxTreeSize}}

\* The decoded contents of a file
RepoSources == {<<"S_cred">>}

\* What a file request gives: a response with status 200 and a content that
\* decodes, one with status 200 and a content that does not decode, a
\* response with another status, or a RequestException
FetchOutcomes == {"200", "200 undecodable", "404", "RequestException"}

\* An analyzer object made with some token, no call made
InitRepo ==
    /\ InitAnalyzer
    /\ github_token \in GithubTokens

\* analyze_github_repo from its first line to the tree request
RepoStart ==
    /\ repo_pc \in {"idle", "returned", "raised"}
    /\ \E url \in RepoUrls :
          /\ repo_url' = url
          /\ IF github_token = None
             THEN /\ repo_return' = [error |-> "GitHub token required"]
                  /\ repo_pc' = "returned"
             ELSE IF Len(Parts(url)) < 2
             THEN /\ repo_return' = [error |-> "Invalid GitHub URL"]
                  /\ repo_pc' = "returned"
             ELSE /\ repo_return' = NoReport
                  /\ repo_pc' = "tree"
    /\ tree' = <<>>
    /\ fetched' = <<>>
    /\ results' = <<>>
    /\ requested' = <<>>
    /\ pr_pc' = "idle" /\ pr_url' = None /\ pr_return' = NoReport
    /\ issue_pc' = "idle" /\ issue_url' = None /\ issue_return' = NoReport
    /\ UNCHANGED <<hashseed, issues, pc, code, options, complexity_score, report, github_token>>
    /\ UNCHANGED apiVars

\* The tree request, raise_for_status and the list python_files, the tree
\* being one of `trees`
RepoTreeOf(trees) ==
    /\ repo_pc = "tree"
    /\ \/ /\ \E paths \in trees : tree' = paths
          /\ repo_pc' = "files"
          /\ UNCHANGED repo_return
       \/ /\ repo_return' = [error |-> "RequestException"]
          /\ repo_pc' = "returned"
          /\ UNCHANGED tree
    /\ requested' = Append(requested, TreeUrl(Parts(repo_url)[1], Parts(repo_url)[2], "main"))
    /\ UNCHANGED <<hashseed, issues, pc, code, options, complexity_score, report>>
    /\ UNCHANGED <<github_token, repo_url, fetched, results, prVars, issueVars, apiVars>>

RepoTree == RepoTreeOf(RepoTrees)

\* One turn of `for file_info in python_files[:10]`: the file request and,
\* for status 200, analyze_code on the decoded content
RepoFile ==
    /\ repo_pc = "files"
    /\ Len(fetched) < Len(FirstFiles(PythonFiles(tree)))
    /\ LET file_info == FirstFiles(PythonFiles(tree))[Len(fetched) + 1]
       IN  \E outcome \in FetchOutcomes :
              /\ fetched' = Append(fetched, [path |-> file_info, outcome |-> outcome])
              /\ CASE outcome = "200" ->
                        \E content \in RepoSources :
                        \E run \in {RunPasses(ResetIssues(issues), content, RepoOptions, hashseed, 1)} :
                           /\ issues' = run.issues
                           /\ IF run.raised
                              THEN /\ repo_pc' = "raised"
                                   /\ UNCHANGED results
                              ELSE /\ \E elapsed \in 0..MaxRepoElapsed :
                                         results' = Append(results,
                                             [file |-> file_info,
                                              analysis |-> BuildReport(run.issues, content,
                                                               ComplexityScore(content, RepoOptions),
                                                               elapsed)])
                                   /\ UNCHANGED repo_pc
                           /\ UNCHANGED repo_return
                   [] outcome = "200 undecodable" ->
                        /\ repo_pc' = "raised"
                        /\ UNCHANGED <<issues, results, repo_return>>
                   [] outcome = "404" ->
                        UNCHANGED <<issues, results, repo_return, repo_pc>>
                   [] outcome = "RequestException" ->
                        /\ repo_return' = [error |-> "RequestException"]
                        /\ repo_pc' = "returned"
                        /\ UNCHANGED <<issues, results>>
    /\ requested' = Append(requested,
           FileUrl(Parts(repo_url)[1], Parts(repo_url)[2],
                   FirstFiles(PythonFiles(tree))[Len(fetched) + 1]))
    /\ UNCHANGED <<hashseed, pc, code, options, complexity_score, report>>
    /\ UNCHANGED <<github_token, repo_url, tree, prVars, issueVars, apiVars>>

\* The return after the loop
RepoReturn ==
    /\ repo_pc = "files"
    /\ Len(fetched) = Len(FirstFiles(PythonFiles(tree)))
    /\ repo_return' = [ repo |-> Parts(repo_url)[1] \o "/" \o Parts(repo_url)[2],
                        branch |-> "main",
                        files_analyzed |-> Len(results),
                        results |-> results ]
    /\ repo_pc' = "returned"
    /\ UNCHANGED <<hashseed, issues, pc, code, options, complexity_score, report>>
    /\ UNCHANGED <<github_token, repo_url, tree, fetched, results, githubVars, apiVars>>

NextRepo == RepoStart \/ RepoTree \/ RepoFile \/ RepoReturn

SpecRepo == InitRepo /\ [][NextRepo]_vars

(***************************************************************************)
(* analyze_github_pr and create_github_issue.  Each is one action: the     *)
(* method from its first line to its return, GitHub's answer being an      *)
(* input.  A call starts from a clean slate of the other methods' results. *)
(***************************************************************************)

\* sep.join(lines) from line i on
RECURSIVE JoinFrom(_, _, _)
JoinFrom(lines, sep, i) ==
    IF i > Len(lines) THEN ""
    ELSE IF i = Len(lines) THEN lines[i]
    ELSE lines[i] \o sep \o JoinFrom(lines, sep, i + 1)

\* sep.join(lines)
Join(lines, sep) == JoinFrom(lines, sep, 1)

\* api_url of analyze_github_pr
PullFilesUrl(owner, repo, pr_number) ==
    "https://api.github.com/repos/" \o owner \o "/" \o repo \o "/pulls/" \o pr_number \o "/files"

\* api_url of create_github_issue
IssuesUrl(owner, repo) ==
    "https://api.github.com/repos/" \o owner \o "/" \o repo \o "/issues"

\* The pull request URLs given to analyze_github_pr: a well-formed one, one
\* without a number, one of an issue, and one with two parts only
PrUrls ==
    { "https://github.com/o/r/pull/7", "https://github.com/o/r/pull/",
      "https://github.com/o/r/issues/7", "o/r" }

\* A patch of GitHub's answer that removes one line and adds the lines of `added`
PatchAdding(added) ==
    Join(<<"--- a/f.py", "+++ b/f.py", "@@ -1,2 +1,2 @@", "-x = 0">>
         \o [i \in 1..Len(Lines(added)) |-> "+" \o Lines(added)[i]]
         \o <<" y = 2">>, "\n")

\* A patch that only removes a line
PatchRemoving == Join(<<"@@ -1,2 +1,1 @@", "-x = 0", " y = 2">>, "\n")

\* The sources a patch's added lines can make up
PatchSources == {<<"S_cred">>, <<"S_x">>, <<"S_synerr">>}

\* response.json() of the files request: no file, one Python file with added
\* lines, files that are skipped (not Python, no patch, nothing added) before
\* one that is analysed, and a file whose added line does not compile
PrFileLists ==
    { <<>>,
      << [filename |-> "a.py", patch |-> PatchAdding(<<"S_cred">>),
          additions |-> 1, deletions |-> 1] >>,
      << [filename |-> "README.md", patch |-> PatchAdding(<<"S_cred">>),
          additions |-> 1, deletions |-> 1],
         [filename |-> "b.py", additions |-> 0, deletions |-> 0],
         [filename |-> "c.py", patch |-> PatchRemoving,
          additions |-> 0, deletions |-> 1],
         [filename |-> "d.py", patch |-> PatchAdding(<<"S_x">>),
          additions |-> 1, deletions |-> 1] >>,
      << [filename |-> "e.py", patch |-> PatchAdding(<<"S_synerr">>),
          additions |-> 1, deletions |-> 1] >> }

\* file_info.get('patch', '')
PatchOf(file_info) == IF "patch" \in DOMAIN file_info THEN file_info.patch ELSE ""

\* line.startswith('+') and not line.startswith('+++')
IsAddedLine(line) == StartsAt(line, 1, "+") /\ ~StartsAt(line, 1, "+++")

\* added_lines: line[1:] of the added lines of patch.split('\n')
AddedLines(patch) ==
    LET kept == SelectSeq(SplitFrom(patch, "\n", 1, ""), IsAddedLine)
    IN  [i \in 1..Len(kept) |-> SubSeq(kept[i], 2, Len(kept[i]))]

\* code = '\n'.join(added_lines), as the source with these lines
AddedCode(added_lines) == CHOOSE c \in PatchSources : Lines(c) = added_lines

\* What self.analyze_code(c, {...}) of analyze_github_pr gives when its
\* passes gave `run`: the issue list it leaves, whether it lets an exception
\* out and, if not, the report it returns after each processing time
PrAnalysisOf(c, run) ==
    [ issues |-> run.issues,
      raised |-> run.raised,
      analysis |-> [elapsed \in 0..MaxRepoElapsed |->
                       IF run.raised THEN NoReport
                       ELSE BuildReport(run.issues, c, ComplexityScore(c, PrOptions), elapsed)] ]

\* self.analyze_code(code, {...}) of analyze_github_pr on the code of a
\* patch, which starts from an empty list whatever the list holds
PrAnalysis ==
    [seed \in HashSeeds |-> [c \in PatchSources |->
        CHOOSE analysed \in { PrAnalysisOf(c, run) :
                                 run \in {RunPasses(ResetIssues(<<>>), c, PrOptions, seed, 1)} } :
            TRUE]]

\* `for file_info in files` from file k on: the issue list, the results and
\* whether an analyze_code call let an exception out
RECURSIVE PrFiles(_, _, _, _, _, _)

\* The rest of the loop after self.analyze_code(code, {...}) of file k gave `run`
PrFileAnalysed(files, k, done, seed, elapsed, run) ==
    IF run.raised
    THEN [issues |-> run.issues, results |-> done, raised |-> TRUE]
    ELSE PrFiles(files, k + 1, run.issues,
             Append(done, [ file |-> files[k].filename,
                            additions |-> files[k].additions,
                            deletions |-> files[k].deletions,
                            analysis |-> run.analysis[elapsed] ]),
             seed, elapsed)

PrFiles(files, k, found, done, seed, elapsed) ==
    IF k > Len(files) THEN [issues |-> found, results |-> done, raised |-> FALSE]
    ELSE IF ~EndsWith(files[k].filename, ".py") \/ AddedLines(PatchOf(files[k])) = <<>>
    THEN PrFiles(files, k + 1, found, done, seed, elapsed)
    ELSE PrFileAnalysed(files, k, done, seed, elapsed,
             PrAnalysis[seed][AddedCode(AddedLines(PatchOf(files[k])))])

\* The error analyze_github_pr returns before any request, "" if none
PrEarlyError(token, url) ==
    IF token = None THEN "GitHub token required"
    ELSE IF Len(Parts(url)) < 4 \/ Parts(url)[3] # "pull" THEN "Invalid PR URL"
    ELSE ""

\* The error create_github_issue returns before any request, "" if none
IssueEarlyError(token, url) ==
    IF token = None THEN "GitHub token required"
    ELSE IF Len(Parts(url)) < 2 THEN "Invalid GitHub URL"
    ELSE ""

\* The state of analyze_github_repo before any call
RepoIdle ==
    /\ repo_pc' = "idle" /\ repo_url' = None /\ repo_return' = NoReport
    /\ tree' = <<>> /\ fetched' = <<>> /\ results' = <<>>

\* No GitHub method is in the middle of a call
NoCallInProgress == repo_pc \in {"idle", "returned", "raised"}

\* analyze_github_pr(pr_url)
AnalyzeGithubPr ==
    /\ NoCallInProgress
    /\ \E url \in PrUrls :
          /\ pr_url' = url
          /\ IF PrEarlyError(github_token, url) # ""
             THEN /\ pr_return' = [error |-> PrEarlyError(github_token, url)]
                  /\ pr_pc' = "returned"
                  /\ requested' = <<>>
                  /\ UNCHANGED issues
             ELSE /\ requested' = <<PullFilesUrl(Parts(url)[1], Parts(url)[2], Parts(url)[4])>>
                  /\ \/ /\ pr_return' = [error |-> "RequestException"]
                        /\ pr_pc' = "returned"
                        /\ UNCHANGED issues
                     \/ \E files \in PrFileLists, elapsed \in 0..MaxRepoElapsed :
                        \E loop \in {PrFiles(files, 1, issues, <<>>, hashseed, elapsed)} :
                           /\ issues' = loop.issues
                           /\ IF loop.raised
                              THEN /\ pr_pc' = "raised"
                                   /\ pr_return' = NoReport
                              ELSE /\ pr_pc' = "returned"
                                   /\ pr_return' =
                                        [ pr |-> Parts(url)[1] \o "/" \o Parts(url)[2]
                                                     \o "#" \o Parts(url)[4],
                                          files_changed |-> Len(loop.results),
                                          results |-> loop.results ]
    /\ RepoIdle
    /\ issue_pc' = "idle" /\ issue_url' = None /\ issue_return' = NoReport
    /\ UNCHANGED <<hashseed, pc, code, options, complexity_score, report, github_token>>
    /\ UNCHANGED apiVars

\* create_github_issue(repo_url, title, body)
CreateGithubIssue ==
    /\ NoCallInProgress
    /\ \E url \in RepoUrls :
          /\ issue_url' = url
          /\ issue_pc' = "returned"
          /\ IF IssueEarlyError(github_token, url) # ""
             THEN /\ issue_return' = [error |-> IssueEarlyError(github_token, url)]
                  /\ requested' = <<>>
             ELSE /\ requested' = <<IssuesUrl(Parts(url)[1], Parts(url)[2])>>
                  /\ \/ issue_return' = [error |-> "RequestException"]
                     \/ issue_return' =
                            [ success |-> TRUE, issue_number |-> 1,
                              url |-> url \o "/issues/1" ]
    /\ RepoIdle
    /\ pr_pc' = "idle" /\ pr_url' = None /\ pr_return' = NoReport
    /\ UNCHANGED <<hashseed, issues, pc, code, options, complexity_score, report, github_token>>
    /\ UNCHANGED apiVars

\* The trees of the repositories the three methods are tried on: without
\* any Python file, so that `for file_info in python_files[:10]` has no turn
GithubTrees == {<<>>, <<"README.md", "f5.pyc">>}

\* The three GitHub methods of one object, called one after the other in
\* any order
NextGithub ==
    \/ RepoStart
    \/ RepoTreeOf(GithubTrees)
    \/ RepoReturn
    \/ AnalyzeGithubPr
    \/ CreateGithubIssue

SpecGithub == InitRepo /\ [][NextGithub]_vars

(***************************************************************************)
(* The properties                                                          *)
(***************************************************************************)

\* The options with key K off, and with key K on
WithOff(o, K) == [k \in DOMAIN o \cup {K} |-> IF k = K THEN FALSE ELSE o[k]]
WithOn(o, K) == [k \in DOMAIN o \cup {K} |-> IF k = K THEN TRUE ELSE o[k]]

\* The issues as the returned dict lists them
Dicts(found) == [n \in 1..Len(found) |-> IssueToDict(found[n])]

\* The number of the dict's issues of one issue_type
TypeCount(listed, type) == Len(SelectSeq(listed, LAMBDA i : i.issue_type = type))

\* The dict but for its timing field
Untimed(r) == [r EXCEPT !.processing_time_ms = 0]

\* The dict a new analyzer object returns for the call's source and options
\* in the running interpreter, with the call's own timing
FreshReport(t) ==
    BuildReport(RunAlone(code[t], options[t], hashseed).issues, code[t],
                ComplexityScore(code[t], options[t]), report[t].processing_time_ms)

\* C1: in every report analyze_code returns, total_issues is the sum of
\* critical, errors, warnings and info, and is the length of the issues list.
C1_SeverityCountsPartition ==
    \A t \in Calls : pc[t] = "done" =>
        /\ report[t].total_issues =
               report[t].critical + report[t].errors + report[t].warnings + report[t].info
        /\ report[t].total_issues = Len(report[t].issues)

\* A report with issues of three severities at once
C1_ReportOfMixedSeverities ==
    \E t \in Calls :
        /\ pc[t] = "done"
        /\ report[t].critical > 0
        /\ report[t].errors > 0
        /\ report[t].info > 0

\* C2: when the steps of two calls on one analyzer object interleave, each
\* call's report lists exactly the issues of its own source, and its counts
\* and scores are those of that source alone.
C2_ConcurrentCallsIsolated ==
    \A t \in Calls : pc[t] = "done" =>
        /\ report[t].issues = FreshReport(t).issues
        /\ report[t].total_issues = FreshReport(t).total_issues
        /\ report[t].critical = FreshReport(t).critical
        /\ report[t].errors = FreshReport(t).errors
        /\ report[t].warnings = FreshReport(t).warnings
        /\ report[t].info = FreshReport(t).info
        /\ report[t].security_score = FreshReport(t).security_score
        /\ report[t].performance_score = FreshReport(t).performance_score
        /\ report[t].maintainability_index = FreshReport(t).maintainability_index

\* C3: every call made after another on the same analyzer object starts
\* from an empty list: its report is the report a new object returns for the
\* same source and options, timing aside, and it raises only when the call
\* on a new object raises.
C3_EachCallStartsEmpty ==
    \A t \in Calls :
        /\ pc[t] = "done" => report[t] = FreshReport(t)
        /\ pc[t] = "raised" => RunAlone(code[t], options[t], hashseed).raised

\* A second call that reports nothing on the object whose first call
\* reported issues
C3_SecondCallAfterIssues ==
    /\ pc[1] = "done"
    /\ pc[2] = "done"
    /\ report[1].total_issues > 0
    /\ report[2].total_issues = 0

\* The issue_type of the issues each option key stands for
IssueTypeOf ==
    [ syntax |-> "syntax", security |-> "security", performance |-> "performance",
      code_smells |-> "style", dead_code |-> "dead_code", type_hints |-> "type_hint" ]

\* C4: a call with key K off returns no issue of K's issue_type, and as
\* many issues of every other issue_type as the call with K on returns.
C4_DisabledCategoryIsSilent ==
    \A t \in Calls : pc[t] = "done" =>
        \A K \in DOMAIN IssueTypeOf : ~Get(options[t], K) =>
            /\ TypeCount(report[t].issues, IssueTypeOf[K]) = 0
            /\ LET enabled == RunAlone(code[t], WithOn(options[t], K), hashseed)
               IN  ~enabled.raised =>
                       \A J \in DOMAIN IssueTypeOf : J # K =>
                           TypeCount(report[t].issues, IssueTypeOf[J])
                               = TypeCount(enabled.issues, IssueTypeOf[J])

\* C5: when _check_syntax meets a parser error that is no SyntaxError, the
\* call still returns a report, and the report lists the issues of the
\* other enabled passes.
C5_PassFailureIsolated ==
    \A t \in Calls :
        (pc[t] # "idle" /\ Get(options[t], "syntax") /\ CheckSyntaxRaises(code[t])) =>
            /\ pc[t] = "done"
            /\ LET others == Dicts(RunAlone(code[t], WithOff(options[t], "syntax"),
                                            hashseed).issues)
               IN  \A n \in 1..Len(others) :
                       \E m \in 1..Len(report[t].issues) : report[t].issues[m] = others[n]

\* C6: for a source that does not parse, the call with syntax on returns
\* exactly one issue of severity Error, of issue_type syntax and on a line
\* >= 1; the tree checks add no issue; the other passes add what they find
\* in the text alone.
C6_ParseFailureOneError ==
    \A t \in Calls :
        (pc[t] # "idle" /\ Get(options[t], "syntax") /\ Parse(code[t]).outcome # "ok") =>
            /\ pc[t] = "done"
            /\ LET errs == SelectSeq(report[t].issues, LAMBDA i : i.severity = "error")
                   text == RunAlone(code[t],
                                    WithOff(WithOff(options[t], "syntax"), "dead_code"),
                                    hashseed).issues
               IN  /\ Len(errs) = 1
                   /\ errs[1].issue_type = "syntax"
                   /\ errs[1].line_number >= 1
                   /\ TypeCount(report[t].issues, "syntax") = 1
                   /\ TypeCount(report[t].issues, "dead_code") = 0
                   /\ \A n \in 1..Len(report[t].issues) :
                          report[t].issues[n].description
                              # "Catching Exception without using it"
                   /\ SelectSeq(report[t].issues, LAMBDA i : i.issue_type # "syntax")
                          = Dicts(text)

\* C7: two calls with the same source and the same options return the same
\* report but for processing_time_ms: the same issues in the same order,
\* the same counts, scores and metrics.
C7_SameInputSameReport ==
    \A s, t \in Calls :
        (/\ pc[s] = "done"
         /\ pc[t] = "done"
         /\ code[s] = code[t]
         /\ options[s] = options[t]) => Untimed(report[s]) = Untimed(report[t])

\* C8: in every report security_score, performance_score and
\* maintainability lie in 0..100, and maintainability is at least 20.
C8_ScoresInRange ==
    \A t \in Calls : pc[t] = "done" =>
        /\ report[t].security_score \in 0..100
        /\ report[t].performance_score \in 0..100
        /\ report[t].maintainability_index \in MaintainabilityFloor..100
        /\ report[t].metrics.security_score \in 0..100
        /\ report[t].metrics.performance_score \in 0..100
        /\ report[t].metrics.maintainability \in MaintainabilityFloor..100

\* A report where the penalties exceed 100 for security and exceed 80 for
\* maintainability
C8_ScoresAtTheFloor ==
    \E t \in Calls :
        /\ pc[t] = "done"
        /\ TypeCount(report[t].issues, "security") * SecurityPenalty > 100
        /\ report[t].errors * ErrorPenalty + report[t].warnings * WarningPenalty
               > 100 - MaintainabilityFloor
        /\ report[t].security_score = 0
        /\ report[t].maintainability_index = MaintainabilityFloor

\* C9: where a line builds query = "SELECT ... '%s'" % uid and the next
\* line calls execute on query, the call with security on reports exactly
\* one issue with cwe_id CWE-89 for the two lines: Critical, of issue_type
\* security, on the line of the execute call.
C9_SqlInjectionOnExecuteLine ==
    \A t \in Calls : (pc[t] = "done" /\ Get(options[t], "security")) =>
        \A k \in 1..Len(code[t]) : code[t][k] = "S_sqlpair" =>
            LET first == LinesBefore(code[t], k)
                hits == SelectSeq(report[t].issues,
                            LAMBDA i : /\ i.cwe_id = "CWE-89"
                                       /\ i.line_number \in {first + 1, first + 2})
            IN  /\ Len(hits) = 1
                /\ hits[1].severity = "critical"
                /\ hits[1].issue_type = "security"
                /\ hits[1].line_number = first + 2

\* C10: for every line that assigns a non-empty string literal to a name
\* that is, case aside, one of password, passwd, pwd, secret, token, api_key,
\* the security pass reports exactly one issue with cwe_id CWE-798 on that
\* line, Critical and of issue_type security; and the report of the source
\* password = "admin123" has exactly one Critical security issue, CWE-798,
\* on line 1.
C10_HardcodedCredentialFlagged ==
    \A t \in Calls : (pc[t] = "done" /\ Get(options[t], "security")) =>
        /\ \A k \in 1..Len(code[t]) :
               \A a \in 1..Len(StmtStrAssigns[code[t][k]]) :
                   LET assign == StmtStrAssigns[code[t][k]][a]
                       ln == LinesBefore(code[t], k) + assign.lineno
                       hits == SelectSeq(report[t].issues,
                                   LAMBDA i : i.cwe_id = "CWE-798" /\ i.line_number = ln)
                   IN  (\E n \in 1..Len(CredentialNames) :
                            Lower(assign.id) = CredentialNames[n]) =>
                           /\ Len(hits) = 1
                           /\ hits[1].severity = "critical"
                           /\ hits[1].issue_type = "security"
        /\ code[t] = <<"S_cred">> =>
               LET hits == SelectSeq(report[t].issues,
                               LAMBDA i : i.severity = "critical" /\ i.issue_type = "security")
               IN  /\ Len(hits) = 1
                   /\ hits[1].cwe_id = "CWE-798"
                   /\ hits[1].line_number = 1

\* The names the dead-code rule is stated for: the names of the functions
\* defined at the top level of the source, and the simple names assigned to
DefinedNames(nodes) ==
    {nodes[n].id : n \in {m \in 1..Len(nodes) :
                              nodes[m].type = "FunctionDef" /\ nodes[m].depth = 1}}
    \cup UNION {{nodes[n].targets[u].id :
                    u \in {v \in 1..Len(nodes[n].targets) :
                               nodes[n].targets[v].kind = "Name"}} :
                n \in {m \in 1..Len(nodes) : nodes[m].type = "Assign"}}

\* The names read somewhere in the source
ReadNames(nodes) ==
    {nodes[n].id : n \in {m \in 1..Len(nodes) :
                              nodes[m].type = "Name" /\ nodes[m].ctx = "Load"}}

\* C11: for a source that parses, the dead_code issues are exactly one Info
\* issue at line 1 for each top-level function name or simple assignment
\* target that is never read and does not begin with an underscore, and none
\* for any other name; for x = 1 / y = 2 they name exactly x and y.
C11_DeadCodeNamesExactly ==
    \A t \in Calls :
        (pc[t] = "done" /\ Get(options[t], "dead_code") /\ Parse(code[t]).outcome = "ok") =>
            LET nodes == Parse(code[t]).nodes
                dead == SelectSeq(report[t].issues, LAMBDA i : i.issue_type = "dead_code")
                unused == {name \in DefinedNames(nodes) \ ReadNames(nodes) :
                               ~StartsAt(name, 1, "_")}
                about(name) == "Unused variable or function: '" \o name \o "'"
            IN  /\ \A n \in 1..Len(dead) :
                       /\ dead[n].severity = "info"
                       /\ dead[n].line_number = 1
                       /\ \E name \in unused : dead[n].description = about(name)
                /\ \A name \in unused :
                       Len(SelectSeq(dead, LAMBDA i : i.description = about(name))) = 1
                /\ code[t] = <<"S_x", "S_y">> =>
                       {dead[n].description : n \in 1..Len(dead)} = {about("x"), about("y")}

\* C12: a call on the empty string with all seven options enabled raises
\* nothing and returns a report with no issue, security_score 100,
\* performance_score 100, maintainability 100 and code_lines 0.
C12_EmptySourceCleanReport ==
    \A t \in Calls :
        (pc[t] # "idle" /\ code[t] = <<>> /\ \A k \in OptionKeys : Get(options[t], k)) =>
            /\ pc[t] = "done"
            /\ report[t].total_issues = 0
            /\ report[t].issues = <<>>
            /\ report[t].security_score = 100
            /\ report[t].performance_score = 100
            /\ report[t].maintainability_index = 100
            /\ report[t].metrics.security_score = 100
            /\ report[t].metrics.performance_score = 100
            /\ report[t].metrics.maintainability = 100
            /\ report[t].metrics.code_lines = 0

\* C12 witness: the empty string has been analysed with all options enabled
C12_EmptySourceAnalysed ==
    \E t \in Calls :
        /\ pc[t] = "done" /\ code[t] = <<>> /\ options[t] = AllEnabled
        /\ report[t].metrics.total_lines = 1

\* C13: every issue of every report has a non-empty description, a severity
\* among critical, error, warning and info, an issue_type among security,
\* performance, style, dead_code, type_hint and syntax, and a line_number of
\* at least 1, also for a syntax error without a line and for the checks of
\* the whole file.
C13_IssuesWellFormed ==
    \A t \in Calls : pc[t] = "done" =>
        \A n \in 1..Len(report[t].issues) :
            LET i == report[t].issues[n]
            IN  /\ i.description # ""
                /\ i.severity \in {"critical", "error", "warning", "info"}
                /\ i.issue_type \in {"security", "performance", "style",
                                     "dead_code", "type_hint", "syntax"}
                /\ i.line_number \in Nat
                /\ i.line_number >= 1

\* C13 witness: a report with the issue of a syntax error that carries no
\* line, given line 1
C13_SyntaxErrorWithoutLine ==
    \E t \in Calls :
        /\ pc[t] = "done"
        /\ Parse(code[t]).outcome = "SyntaxError"
        /\ Parse(code[t]).lineno = 0
        /\ \E n \in 1..Len(report[t].issues) :
               /\ report[t].issues[n].issue_type = "syntax"
               /\ report[t].issues[n].line_number = 1

\* The number of the dict's issues of one severity
SeverityTally(listed, severity) == Len(SelectSeq(listed, LAMBDA i : i.severity = severity))

\* C14: in every report security_score is max(0, 100 - 20 * S) and
\* performance_score is max(0, 100 - 10 * P), S and P being the numbers of
\* security and performance issues in the report's issue list.
C14_ScoresFromIssueCounts ==
    \A t \in Calls : pc[t] = "done" =>
        LET S == TypeCount(report[t].issues, "security")
            P == TypeCount(report[t].issues, "performance")
        IN  /\ report[t].security_score = (IF 100 - 20 * S > 0 THEN 100 - 20 * S ELSE 0)
            /\ report[t].performance_score = (IF 100 - 10 * P > 0 THEN 100 - 10 * P ELSE 0)
            /\ report[t].metrics.security_score = report[t].security_score
            /\ report[t].metrics.performance_score = report[t].performance_score

\* C14 witness: a report with more than five security issues, where the
\* floor applies, and with performance issues
C14_ManySecurityIssues ==
    \E t \in Calls :
        /\ pc[t] = "done"
        /\ TypeCount(report[t].issues, "security") > 5
        /\ TypeCount(report[t].issues, "performance") > 0
        /\ report[t].performance_score < 100

\* C15: in every report maintainability, in the metrics and as
\* maintainability_index, is max(20, 100 - 15 * E - 5 * W), E and W being
\* the numbers of Error and Warning issues; Critical and Info issues do not
\* change it.
C15_MaintainabilityFromErrorsAndWarnings ==
    \A t \in Calls : pc[t] = "done" =>
        LET E == SeverityTally(report[t].issues, "error")
            W == SeverityTally(report[t].issues, "warning")
            m == 100 - 15 * E - 5 * W
        IN  /\ report[t].metrics.maintainability = (IF m > 20 THEN m ELSE 20)
            /\ report[t].maintainability_index = report[t].metrics.maintainability

\* C15 witness: a report with Critical and Info issues next to Warning ones
\* whose maintainability shows the warnings only
C15_WarningsAmongOtherSeverities ==
    \E t \in Calls :
        /\ pc[t] = "done"
        /\ SeverityTally(report[t].issues, "critical") > 0
        /\ SeverityTally(report[t].issues, "info") > 0
        /\ SeverityTally(report[t].issues, "warning") > 0
        /\ report[t].maintainability_index =
               100 - 5 * SeverityTally(report[t].issues, "warning")

\* Whether the pass of the key runs under the options, as the rule states
\* it: unless the key is present and false
Enabled16(o, K) == ~(K \in DOMAIN o /\ o[K] = FALSE)

\* The issues of the passes the options enable, each pass on its own, in the
\* order of the passes
IssuesOfEnabledPasses(c, o, seed) ==
    EachLine([k \in 1..Len(PassOrder) |->
                 IF Enabled16(o, PassOrder[k]) /\ ~PassRaises(PassOrder[k], c)
                 THEN PassIssues(PassOrder[k], <<>>, c, seed)
                 ELSE <<>>])

\* C16: each of the seven option keys enables its pass on its own and an
\* absent key counts as enabled: in every call the passes that have run are
\* exactly those whose key is not present and false, so the call's issues
\* are those of these passes and its complexity is computed unless the
\* complexity key is present and false.
C16_PassRunsUnlessKeyFalse ==
    \A t \in Calls : pc[t] # "idle" =>
        /\ issues = IssuesOfEnabledPasses(code[t], options[t], hashseed)
        /\ pc[t] = "done" =>
               report[t].complexity_score =
                   (IF Enabled16(options[t], "complexity")
                    THEN CalculateComplexity(code[t]) ELSE 0)

\* Whether a line calls eval( or exec(, for every line of the catalogue
CallsEvalOrExec ==
    [line \in CatalogueLines |->
        \E word \in {"eval", "exec"} : \E i \in 1..Len(line) :
            /\ StartsAt(line, i, word)
            /\ WordBoundary(line, i)
            /\ Ch(line, SkipSpace(line, i + 4)) = "("]

\* C18: with the security pass enabled, every line that calls eval( or
\* exec( has a Critical security issue with CWE-95 on that line.
C18_EvalAndExecFlagged ==
    \A t \in Calls : (pc[t] = "done" /\ Get(options[t], "security")) =>
        \A i \in 1..Len(Lines(code[t])) :
            CallsEvalOrExec[Lines(code[t])[i]] =>
                \E n \in 1..Len(report[t].issues) :
                    /\ report[t].issues[n].line_number = i
                    /\ report[t].issues[n].severity = "critical"
                    /\ report[t].issues[n].issue_type = "security"
                    /\ report[t].issues[n].cwe_id = "CWE-95"

\* Whether a line holds more than two '+' together with a quoted string
\* literal, for every line of the catalogue
ManyPlusWithQuote ==
    [line \in CatalogueLines |->
        /\ Count(line, "+") > 2
        /\ (Contains(line, "\"") \/ Contains(line, "'"))]

\* C19: with the performance pass enabled, a line has the Info issue
\* 'Multiple string concatenations' exactly when it holds more than two '+'
\* together with a quoted string literal; a line with at most two '+' never
\* has it, whichever quote it holds.
C19_ConcatenationIssueExactly ==
    \A t \in Calls : (pc[t] = "done" /\ Get(options[t], "performance")) =>
        \A i \in 1..Len(Lines(code[t])) :
            LET hits == SelectSeq(report[t].issues,
                            LAMBDA h : /\ h.description = "Multiple string concatenations"
                                       /\ h.line_number = i)
            IN  /\ (hits # <<>>) <=> ManyPlusWithQuote[Lines(code[t])[i]]
                /\ \A n \in 1..Len(hits) :
                       hits[n].severity = "info" /\ hits[n].issue_type = "performance"
                /\ Count(Lines(code[t])[i], "+") <= 2 => hits = <<>>

\* The if, while, for and exception-handler nodes of a tree
BranchingNodes(nodes) ==
    {n \in 1..Len(nodes) : nodes[n].type \in {"If", "While", "For", "ExceptHandler"}}

\* The operands after the first of the tree's boolean operators
ExtraOperands(nodes) ==
    UNION {{<<n, j>> : j \in 2..nodes[n].nvalues} :
           n \in {m \in 1..Len(nodes) : nodes[m].type = "BoolOp"}}

\* C20: complexity_score is 0 when the complexity option is disabled;
\* otherwise, for a source that parses, it is 1, plus one for each if, while,
\* for and exception-handler node, plus the number of operands less one for
\* each boolean operator.
C20_ComplexityCountsBranches ==
    \A t \in Calls : pc[t] = "done" =>
        /\ ~Get(options[t], "complexity") => report[t].complexity_score = 0
        /\ (Get(options[t], "complexity") /\ Parse(code[t]).outcome = "ok") =>
               report[t].complexity_score =
                   1 + Cardinality(BranchingNodes(Parse(code[t]).nodes))
                     + Cardinality(ExtraOperands(Parse(code[t]).nodes))

\* C20 witness: a report for a source with branches and boolean operators of
\* two and of three operands
C20_BranchesAndBooleanOperators ==
    \E t \in Calls :
        /\ pc[t] = "done"
        /\ code[t] = <<"S_branch">>
        /\ Get(options[t], "complexity")
        /\ report[t].complexity_score = 6

\* The places in the tree of the entries ending in .py
PyEntries == {j \in 1..Len(tree) : EndsWith(tree[j], ".py")}

\* The k-th entry of the tree ending in .py
PyEntry(k) ==
    tree[CHOOSE j \in PyEntries : Cardinality({i \in PyEntries : i <= j}) = k]

\* The file requests answered with status 200 and a content that decodes
Fetched200 == SelectSeq(fetched, LAMBDA f : f.outcome = "200")

C21_SummaryShowsComplexityScore ==
    \A t \in Calls : pc[t] = "done" =>
        report[t].summary.complexity = report[t].complexity_score

\* C22: the status of the summary is the critical state whenever the
\* report's issue list has a Critical issue, the needs-attention state when
\* it has no Critical but an Error issue, and the good state otherwise,
\* whatever its Warning and Info issues.
C22_StatusFromCriticalAndErrors ==
    \A t \in Calls : pc[t] = "done" =>
        LET critical == SeverityTally(report[t].issues, "critical")
            errors == SeverityTally(report[t].issues, "error")
        IN  /\ critical > 0 => report[t].summary.status = "CRITICAL"
            /\ (critical = 0 /\ errors > 0) => report[t].summary.status = "NEEDS ATTENTION"
            /\ (critical = 0 /\ errors = 0) => report[t].summary.status = "GOOD"
            /\ report[t].summary.critical = critical
            /\ report[t].summary.errors = errors

\* C22 witness: a report with an Error issue and Warning or Info issues but
\* no Critical one, in the needs-attention state
C22_ErrorsWithoutCritical ==
    \E t \in Calls :
        /\ pc[t] = "done"
        /\ SeverityTally(report[t].issues, "critical") = 0
        /\ SeverityTally(report[t].issues, "error") > 0
        /\ SeverityTally(report[t].issues, "warning") + SeverityTally(report[t].issues, "info") > 0
        /\ report[t].summary.status = "NEEDS ATTENTION"

\* The detectors of the line passes by the description of their issues, in
\* the order the claim gives them: pass by pass, and in a pass the order of
\* its checks on a line
DetectorOrder ==
    << "SQL Injection vulnerability detected",
       "Command Injection vulnerability",
       "Hardcoded credentials detected",
       "Weak cryptographic algorithm",
       "Dangerous eval() usage",
       "Unsafe deserialization with pickle",
       "Inefficient list concatenation in loop",
       "Multiple string concatenations",
       "Global variable usage affects performance",
       "Line too long (>120 characters)",
       "Magic number detected",
       "Commented out code",
       "Multiple statements on one line",
       "Function missing type hints" >>

\* The place of an issue's detector in DetectorOrder, 0 for the issues of the
\* passes over the tree
DetectorRank(i) ==
    IF \E k \in 1..Len(DetectorOrder) : DetectorOrder[k] = i.description
    THEN CHOOSE k \in 1..Len(DetectorOrder) : DetectorOrder[k] = i.description
    ELSE 0

\* The place of the pass an issue comes from: syntax, security, performance,
\* code_smells, dead_code, type_hints
PassRank(i) ==
    IF i.issue_type = "syntax" \/ i.description = "Catching Exception without using it" THEN 1
    ELSE IF i.issue_type = "security" THEN 2
    ELSE IF i.issue_type = "performance" THEN 3
    ELSE IF i.issue_type = "style" THEN 4
    ELSE IF i.issue_type = "dead_code" THEN 5
    ELSE 6

\* C23: the issues of a report are in the order they were found and not
\* sorted by line: those of the syntax pass first, then those of security,
\* performance, code_smells, dead_code and type_hints; in a pass over the
\* lines by ascending line and, on one line, in the order of the pass's
\* detectors.
C23_IssuesInDiscoveryOrder ==
    \A t \in Calls : pc[t] = "done" =>
        \A a, b \in 1..Len(report[t].issues) : a < b =>
            LET x == report[t].issues[a]
                y == report[t].issues[b]
            IN  /\ PassRank(x) <= PassRank(y)
                /\ (PassRank(x) = PassRank(y) /\ PassRank(x) \in {2, 3, 4, 6}) =>
                       \/ x.line_number < y.line_number
                       \/ /\ x.line_number = y.line_number
                          /\ DetectorRank(x) < DetectorRank(y)

\* C23 witness: a report where an issue of a later pass is on an earlier
\* line than an issue before it, and where one pass has two issues on one
\* line
C23_LaterPassEarlierLine ==
    \E t \in Calls :
        /\ pc[t] = "done"
        /\ \E a, b \in 1..Len(report[t].issues) :
               /\ a < b
               /\ PassRank(report[t].issues[a]) < PassRank(report[t].issues[b])
               /\ report[t].issues[a].line_number > report[t].issues[b].line_number
        /\ \E a, b \in 1..Len(report[t].issues) :
               /\ a < b
               /\ PassRank(report[t].issues[a]) = PassRank(report[t].issues[b])
               /\ report[t].issues[a].line_number = report[t].issues[b].line_number

\* C24: when the dead-code pass runs on a source its parse fails on, it
\* raises nothing and reports nothing: the call returns its report, without
\* any dead_code issue and with the issues of the other passes.
C24_DeadCodeFailureSwallowed ==
    \A t \in Calls :
        ( /\ pc[t] # "idle"
          /\ Get(options[t], "dead_code")
          /\ Parse(code[t]).outcome # "ok"
          /\ ~(Get(options[t], "syntax") /\ CheckSyntaxRaises(code[t])) ) =>
            /\ pc[t] = "done"
            /\ TypeCount(report[t].issues, "dead_code") = 0
            /\ report[t].issues =
                   Dicts(RunAlone(code[t], WithOff(options[t], "dead_code"), hashseed).issues)

\* C24 witness: a report returned by a call whose dead-code pass ran on a
\* source that ast.parse rejects with an exception other than SyntaxError,
\* holding the issues of other passes
C24_DeadCodeOnUnparsableSource ==
    \E t \in Calls :
        /\ pc[t] = "done"
        /\ Get(options[t], "dead_code")
        /\ Parse(code[t]).outcome = "OtherError"
        /\ report[t].total_issues > 0

\* Whether a line contains a loop keyword, for or while as a word, for every
\* line of the catalogue
HasLoopKeyword ==
    [line \in CatalogueLines |->
        \E word \in {"for", "while"} : \E i \in 1..Len(line) :
            /\ StartsAt(line, i, word)
            /\ ~IsWord(Ch(line, i - 1))
            /\ ~IsWord(Ch(line, i + Len(word)))]

\* C25: with the performance pass enabled, line i has the Warning
\* 'Inefficient list concatenation in loop' exactly when it uses += on a
\* list-like name and line i-1 contains a loop keyword; the first line never
\* has it, and a loop keyword two or more lines above does not count.
C25_ListConcatenationInLoop ==
    \A t \in Calls : (pc[t] = "done" /\ Get(options[t], "performance")) =>
        \A i \in 1..Len(Lines(code[t])) :
            LET hits == SelectSeq(report[t].issues,
                            LAMBDA h : /\ h.description = "Inefficient list concatenation in loop"
                                       /\ h.line_number = i)
            IN  /\ (hits # <<>>) <=>
                       /\ i > 1
                       /\ OnLine[Lines(code[t])[i]].list_augment
                       /\ HasLoopKeyword[Lines(code[t])[i - 1]]
                /\ \A n \in 1..Len(hits) :
                       hits[n].severity = "warning" /\ hits[n].issue_type = "performance"

\* C26: in every report only issues of issue_type security carry a cwe_id;
\* every issue of another issue_type has none.
C26_CweOnlyOnSecurityIssues ==
    \A t \in Calls : pc[t] = "done" =>
        \A n \in 1..Len(report[t].issues) :
            report[t].issues[n].issue_type # "security" =>
                report[t].issues[n].cwe_id = None

\* C26 witness: a report with a security issue that carries a cwe_id and
\* with issues of the performance, style and syntax types
C26_SecurityAmongOtherTypes ==
    \E t \in Calls :
        /\ pc[t] = "done"
        /\ \E n \in 1..Len(report[t].issues) :
               /\ report[t].issues[n].issue_type = "security"
               /\ report[t].issues[n].cwe_id # None
        /\ TypeCount(report[t].issues, "performance") > 0
        /\ TypeCount(report[t].issues, "style") > 0
        /\ TypeCount(report[t].issues, "syntax") > 0

\* C27: in every report the metrics count each line once, as code, comment
\* or blank: code_lines + comment_lines + blank_lines = total_lines, and the
\* denominator max(1, total_lines - code_lines) of code_to_comment_ratio is
\* not zero.
C27_LineCountsPartition ==
    \A t \in Calls : pc[t] = "done" =>
        LET m == report[t].metrics
        IN  /\ m.code_lines + m.comment_lines + m.blank_lines = m.total_lines
            /\ m.total_lines = Len(Lines(code[t]))
            /\ m.code_to_comment_ratio[1] = m.code_lines
            /\ m.code_to_comment_ratio[2] >= 1
            /\ m.code_to_comment_ratio[2] =
                   (IF m.total_lines - m.code_lines > 1 THEN m.total_lines - m.code_lines ELSE 1)

\* C27 witness: a report for a source with code lines, an indented comment
\* line and a whitespace-only line
C27_CodeCommentAndBlankLines ==
    \E t \in Calls :
        /\ pc[t] = "done"
        /\ report[t].metrics.code_lines > 1
        /\ report[t].metrics.comment_lines > 0
        /\ report[t].metrics.blank_lines > 0

\* A pull request URL of the form owner/repo/pull/N: at least four parts
\* after the host, an owner, a repository, the word pull and a number
IsPullUrl(url) ==
    LET parts == Parts(url)
    IN  /\ Len(parts) >= 4
        /\ parts[1] # "" /\ parts[2] # ""
        /\ parts[3] = "pull"
        /\ parts[4] # ""
        /\ \A i \in 1..Len(parts[4]) : IsDigit(Ch(parts[4], i))

\* C29: without a GitHub token each GitHub method returns
\* {'error': 'GitHub token required'}, requests nothing and leaves the issue
\* list as it was, empty as no analysis was made on the object; with a
\* token, a repository URL of fewer than two parts or a pull request URL
\* that is not of the form owner/repo/pull/N gives an error result and no
\* request either.
C29_NoRequestWithoutTokenOrOnBadUrl ==
    /\ github_token = None =>
          /\ repo_pc # "idle" =>
                repo_pc = "returned" /\ repo_return = [error |-> "GitHub token required"]
          /\ pr_pc # "idle" =>
                pr_pc = "returned" /\ pr_return = [error |-> "GitHub token required"]
          /\ issue_pc # "idle" =>
                issue_pc = "returned" /\ issue_return = [error |-> "GitHub token required"]
          /\ requested = <<>>
          /\ issues = <<>>
    /\ github_token # None =>
          /\ (repo_pc # "idle" /\ Len(Parts(repo_url)) < 2) =>
                /\ repo_pc = "returned"
                /\ "error" \in DOMAIN repo_return
                /\ requested = <<>>
          /\ (issue_pc # "idle" /\ Len(Parts(issue_url)) < 2) =>
                /\ issue_pc = "returned"
                /\ "error" \in DOMAIN issue_return
                /\ requested = <<>>
          /\ (pr_pc # "idle" /\ ~IsPullUrl(pr_url)) =>
                /\ pr_pc = "returned"
                /\ "error" \in DOMAIN pr_return
                /\ requested = <<>>

(***************************************************************************)
(* The HTTP API.  Every request gets an analyzer object of its own         *)
(* (get_analyzer), so the handlers leave the object above alone.  A        *)
(* handler is one action, but analyze_file, which awaits the handler       *)
(* analyze_code: it is one action up to the await and one after it.        *)
(***************************************************************************)

MaxApiElapsed == 0

\* The headers X-HuggingFace-Token
HfTokens == {None, "hf"}

\* The code of the requests: without issue, with an issue that carries a
\* suggested fix, with one that carries none, with both, and one that makes
\* analyze_code raise
ApiSources == {<<"S_exec">>, <<"S_cred">>, <<"S_nul">>, <<"S_cred", "S_nul">>, <<"S_surr">>}

\* The options of the requests: AnalysisOptions has the seven fields
ApiOptions ==
    {AllEnabled, WithOff(AllEnabled, "security"), [k \in OptionKeys |-> FALSE]}

\* The bodies CodeAnalysisRequest accepts: a code that is not blank, a file
\* name or null
ApiRequests ==
    [code : ApiSources, file_name : {"input.py", None}, auto_fix : BOOLEAN, options : ApiOptions]

\* The uploads of analyze_file: the file name and what content.decode('utf-8')
\* gives or that it fails
Uploads ==
    [filename : {"a.py", "a.txt"}, decodes : {TRUE},
     code : {<<>>, <<"S_cred">>, <<"S_exec">>}, auto_fix : BOOLEAN]
    \cup [filename : {"a.py"}, decodes : {FALSE}, code : {<<>>}, auto_fix : {FALSE}]

\* GitHub's answers to the first request of an analyzer method that the
\* repository and pull request handlers are tried with: a failure, and an
\* answer without any Python file
GithubAnswers == {"RequestException", "no Python file"}

\* raise HTTPException(status_code=status)
HttpError(status) == [kind |-> "HTTPException", status |-> status]

\* raise of another exception
OtherError(name) == [kind |-> name, status |-> 0]

\* return body
Returned(body) == [kind |-> "return", status |-> 200, body |-> body]

\* What the client gets: FastAPI answers an HTTPException with its status
\* code, and a returned value with 200
Respond(outcome) ==
    [ state |-> "sent",
      status |-> outcome.status,
      body |-> IF outcome.kind = "return" THEN outcome.body ELSE [detail |-> "error"] ]

\* The mutant of ChangesMade: an entry for every issue.
ChangesMadeForEveryIssue(found) ==
    [n \in 1..Len(found) |->
        "Fixed " \o found[n].issue_type \o " at line " \o ToString(found[n].line_number)]

\* changes_made of the handler analyze_code: an entry for each issue of
\* results['issues'] with a suggested_fix that is not None or empty
ChangesMade(found) ==
    LET fixed == SelectSeq(found, LAMBDA issue : issue.suggested_fix \notin {None, ""})
    IN  [n \in 1..Len(fixed) |->
            "Fixed " \o fixed[n].issue_type \o " at line " \o ToString(fixed[n].line_number)]

\* len(v.strip()) == 0 of validate_code, and min_length=1
BlankCode(text) == \A i \in 1..Len(Lines(text)) : Strip(Lines(text)[i]) = ""

\* The try block of the handler analyze_code, analyzer.analyze_code having
\* raised or returned `analysed`.  An Optional value is the empty sequence for
\* None and a sequence of one element for a value.
AnalyzeCodeTry(body, hf_token, raised, analysed) ==
    IF body.options["security"] /\ hf_token = None THEN HttpError(401)
    ELSE IF raised THEN OtherError("Exception")
    ELSE IF body.file_name = None THEN OtherError("ValidationError")
    ELSE LET fix == body.auto_fix /\ analysed.total_issues > 0
             fixed_code == IF fix THEN <<body.code>> ELSE <<>>
             changes_made == IF fix THEN <<ChangesMade(analysed.issues)>> ELSE <<>>
         IN  Returned(
                 [ success |-> TRUE,
                   message |-> "Analysis completed successfully",
                   file_name |-> body.file_name,
                   total_issues |-> analysed.total_issues,
                   critical |-> analysed.critical,
                   errors |-> analysed.errors,
                   warnings |-> analysed.warnings,
                   info |-> analysed.info,
                   complexity_score |-> analysed.complexity_score,
                   maintainability_index |-> analysed.maintainability_index,
                   security_score |-> analysed.security_score,
                   performance_score |-> analysed.performance_score,
                   issues |-> analysed.issues,
                   summary |-> analysed.summary,
                   metrics |-> analysed.metrics,
                   fixed_code |-> fixed_code,
                   changes_made |-> changes_made,
                   auto_fix_applied |-> body.auto_fix /\ fixed_code # <<>> ])

\* The except clauses of the handler analyze_code
AnalyzeCodeExcept(outcome) ==
    IF outcome.kind \in {"return", "HTTPException"} THEN outcome ELSE HttpError(500)

\* The except clauses of the handler analyze_file
AnalyzeFileExcept(outcome) ==
    IF outcome.kind = "return" THEN outcome
    ELSE IF outcome.kind = "UnicodeDecodeError" THEN HttpError(400)
    ELSE HttpError(500)

\* The except clause of the handlers analyze_github_repo and analyze_github_pr
GithubExcept(outcome) ==
    IF outcome.kind = "return" THEN outcome ELSE HttpError(500)

\* analyze_file up to its await: what it raises, or the request it makes
AnalyzeFileTry(upload) ==
    IF ~EndsWith(upload.filename, ".py") THEN HttpError(400)
    ELSE IF ~upload.decodes THEN OtherError("UnicodeDecodeError")
    ELSE IF BlankCode(upload.code) THEN OtherError("ValidationError")
    ELSE Returned([code |-> upload.code, file_name |-> upload.filename,
                   auto_fix |-> upload.auto_fix, options |-> AllEnabled])

\* analyzer.analyze_github_repo(repo_url, branch) when GitHub's answer is
\* one of GithubAnswers
GithubRepoResults(token, url, answer) ==
    IF token = None THEN [error |-> "GitHub token required"]
    ELSE IF Len(Parts(url)) < 2 THEN [error |-> "Invalid GitHub URL"]
    ELSE IF answer = "RequestException" THEN [error |-> "RequestException"]
    ELSE [ repo |-> Parts(url)[1] \o "/" \o Parts(url)[2], branch |-> "main",
           files_analyzed |-> 0, results |-> <<>> ]

\* analyzer.analyze_github_pr(pr_url) when GitHub's answer is one of
\* GithubAnswers
GithubPrResults(token, url, answer) ==
    IF PrEarlyError(token, url) # "" THEN [error |-> PrEarlyError(token, url)]
    ELSE IF answer = "RequestException" THEN [error |-> "RequestException"]
    ELSE [ pr |-> Parts(url)[1] \o "/" \o Parts(url)[2] \o "#" \o Parts(url)[4],
           files_changed |-> 0, results |-> <<>> ]

\* The try block of the two GitHub handlers on the analyzer's results
GithubTry(answered) ==
    IF "error" \in DOMAIN answered THEN HttpError(400)
    ELSE Returned([success |-> TRUE] @@ answered)

\* No handler is waiting for another
NoAwait == response.state # "awaiting"

\* The calls of the handler analyze_code: those of analyze_file when it is
\* waiting, else those of the clients
AnalyzeCodeCalls ==
    IF response.state = "awaiting"
    THEN {[from |-> "analyze_file", body |-> request.awaited, hf_token |-> request.hf_token]}
    ELSE [from : {"client"}, body : ApiRequests, hf_token : HfTokens]

\* POST /api/v2/analyze, and the call of the handler by analyze_file
ApiAnalyzeCode ==
    /\ \E call \in AnalyzeCodeCalls, elapsed \in 0..MaxApiElapsed :
       \E run \in {RunPasses(ResetIssues(<<>>), call.body.code, call.body.options, hashseed, 1)} :
       \E analysed \in {IF run.raised THEN [total_issues |-> 0]
                       ELSE BuildReport(run.issues, call.body.code,
                                ComplexityScore(call.body.code, call.body.options), elapsed)} :
       \E outcome \in {AnalyzeCodeExcept(
                           AnalyzeCodeTry(call.body, call.hf_token, run.raised, analysed))} :
          IF call.from = "client"
          THEN /\ request' = [endpoint |-> "/api/v2/analyze", body |-> call.body,
                              hf_token |-> call.hf_token]
               /\ response' = Respond(outcome)
          ELSE /\ response' = [state |-> "returned", status |-> 0, outcome |-> outcome]
               /\ UNCHANGED request
    /\ network' = "none"
    /\ UNCHANGED <<hashseed, issues, pc, code, options, complexity_score, report>>
    /\ UNCHANGED <<github_token, repoVars, githubVars>>

\* POST /api/v2/analyze/file up to `await analyze_code(...)`
ApiAnalyzeFile ==
    /\ NoAwait
    /\ \E upload \in Uploads, hf_token \in HfTokens :
       \E tried \in {AnalyzeFileTry(upload)} :
          IF tried.kind = "return"
          THEN /\ request' = [endpoint |-> "/api/v2/analyze/file", upload |-> upload,
                              hf_token |-> hf_token, awaited |-> tried.body]
               /\ response' = [state |-> "awaiting", status |-> 0]
          ELSE /\ request' = [endpoint |-> "/api/v2/analyze/file", upload |-> upload,
                              hf_token |-> hf_token]
               /\ response' = Respond(AnalyzeFileExcept(tried))
    /\ network' = "none"
    /\ UNCHANGED <<hashseed, issues, pc, code, options, complexity_score, report>>
    /\ UNCHANGED <<github_token, repoVars, githubVars>>

\* POST /api/v2/analyze/file after the await: the return or the except clauses
ApiAnalyzeFileReturn ==
    /\ response.state = "returned"
    /\ response' = Respond(AnalyzeFileExcept(response.outcome))
    /\ UNCHANGED <<request, network>>
    /\ UNCHANGED <<hashseed, issues, pc, code, options, complexity_score, report>>
    /\ UNCHANGED <<github_token, repoVars, githubVars>>

\* POST /api/v2/github/analyze-repo
ApiAnalyzeGithubRepo ==
    /\ NoAwait
    /\ \E token \in GithubTokens, url \in RepoUrls, answer \in GithubAnswers :
          /\ request' = [endpoint |-> "/api/v2/github/analyze-repo", repo_url |-> url,
                         github_token |-> token]
          /\ IF token = None
             THEN /\ response' = Respond(HttpError(401))
                  /\ network' = "none"
             ELSE /\ response' = Respond(GithubExcept(GithubTry(
                                     GithubRepoResults(token, url, answer))))
                  /\ network' = IF Len(Parts(url)) < 2 THEN "none" ELSE answer
    /\ UNCHANGED <<hashseed, issues, pc, code, options, complexity_score, report>>
    /\ UNCHANGED <<github_token, repoVars, githubVars>>

\* POST /api/v2/github/analyze-pr
ApiAnalyzeGithubPr ==
    /\ NoAwait
    /\ \E token \in GithubTokens, url \in PrUrls, answer \in GithubAnswers :
          /\ request' = [endpoint |-> "/api/v2/github/analyze-pr", pr_url |-> url,
                         github_token |-> token]
          /\ IF token = None
             THEN /\ response' = Respond(HttpError(401))
                  /\ network' = "none"
             ELSE /\ response' = Respond(GithubExcept(GithubTry(
                                     GithubPrResults(token, url, answer))))
                  /\ network' = IF PrEarlyError(token, url) # "" THEN "none" ELSE answer
    /\ UNCHANGED <<hashseed, issues, pc, code, options, complexity_score, report>>
    /\ UNCHANGED <<github_token, repoVars, githubVars>>

NextApi ==
    \/ ApiAnalyzeCode
    \/ ApiAnalyzeFile
    \/ ApiAnalyzeFileReturn
    \/ ApiAnalyzeGithubRepo
    \/ ApiAnalyzeGithubPr

SpecApi == Init /\ [][NextApi]_vars

\* The latest request went to this endpoint and was answered
Answered(endpoint) == response.state = "sent" /\ request.endpoint = endpoint

\* C28: an HTTPException raised in a handler reaches the client with its own
\* status code: 401 for a security analysis asked of /api/v2/analyze without
\* HuggingFace token, 400 for an upload to /api/v2/analyze/file whose name
\* does not end in .py, 400 for an analyzer result with an 'error' key on
\* analyze-repo and on analyze-pr.
C28_HttpExceptionKeepsItsStatus ==
    /\ ( /\ Answered("/api/v2/analyze")
         /\ request.body.options["security"]
         /\ request.hf_token = None ) => response.status = 401
    /\ ( /\ Answered("/api/v2/analyze/file")
         /\ ~EndsWith(request.upload.filename, ".py") ) => response.status = 400
    /\ ( /\ Answered("/api/v2/github/analyze-repo")
         /\ request.github_token # None
         /\ "error" \in DOMAIN GithubRepoResults(request.github_token, request.repo_url, network) )
           => response.status = 400
    /\ ( /\ Answered("/api/v2/github/analyze-pr")
         /\ request.github_token # None
         /\ "error" \in DOMAIN GithubPrResults(request.github_token, request.pr_url, network) )
           => response.status = 400

\* The entries of changes_made for the first n issues of a report: one for
\* each issue that has a suggested fix
RECURSIVE FixEntries(_, _)
FixEntries(found, n) ==
    IF n = 0 THEN <<>>
    ELSE FixEntries(found, n - 1) \o
         ( IF found[n].suggested_fix = None THEN <<>>
           ELSE << "Fixed " \o found[n].issue_type \o " at line "
                       \o ToString(found[n].line_number) >> )

=============================================================================
